---- MODULE Spec2Model ----
(***************************************************************************)
(* A state-machine model of neural_nets/layers/layers.py: one layer object *)
(* (its fields X, trainable, is_initialized, parameters, gradients,        *)
(* derived_variables) driven by forward / backward / update /              *)
(* flush_gradients / freeze / unfreeze / reset_running_stats calls.        *)
(*                                                                         *)
(* Python values are modelled as tagged records:                           *)
(*   None            [py |-> "None"]                                       *)
(*   a list          [py |-> "list", items |-> <<...>>]                    *)
(*   a numpy array   [py |-> "ndarray", shape |-> <<r, c>>, val |-> <<..>>]*)
(*                   (val is the row-major sequence of the entries)        *)
(* Python dicts are functions whose DOMAIN is the set of keys; Python ints *)
(* are integers.  A call that raises keeps every assignment it made before *)
(* the raise, as in Python.                                                *)
(***************************************************************************)
EXTENDS Integers, Sequences, FiniteSets, TLC

VARIABLES
    kind,               \* the class of the layer object
    trainable,          \* self.trainable
    is_initialized,     \* self.is_initialized
    X,                  \* self.X
    parameters,         \* self.parameters
    gradients,          \* self.gradients
    derived_variables,  \* self.derived_variables
    attrs,              \* other attributes read by the handlers (n_in, in_ch, in_dims, momentum)
    last,               \* observation of the last call: its name, outcome and return value
    calls               \* observation of the calls made in the current accumulation window

vars == <<kind, trainable, is_initialized, X, parameters, gradients,
          derived_variables, attrs, last, calls>>

(***************************************************************************)
(* Bounds of the exploration.                                              *)
(***************************************************************************)
MaxT == 2          \* forward calls on a recurrent cell per accumulation window
MaxExtra == 1      \* how far below 0 the cursor of a recurrent cell is driven
MaxUpdates == 1    \* successful update() calls in a behaviour

(***************************************************************************)
(* Python values.                                                          *)
(***************************************************************************)
None == [py |-> "None"]
List(s) == [py |-> "list", items |-> s]
Arr(sh, v) == [py |-> "ndarray", shape |-> sh, val |-> v]
IsNone(x) == x.py = "None"
IsList(x) == x.py = "list"
IsArr(x) == x.py = "ndarray"

EmptyDict == [k \in {} |-> None]
HasKey(d, k) == k \in DOMAIN d
SetItem(d, k, v) == [x \in (DOMAIN d) \cup {k} |-> IF x = k THEN v ELSE d[x]]

\* list[i] with Python's negative indices
ValidIndex(s, i) == (0 <= i /\ i < Len(s)) \/ (i < 0 /\ -i <= Len(s))
Position(s, i) == IF i >= 0 THEN i ELSE Len(s) + i
GetItem(s, i) == s[Position(s, i) + 1]

(***************************************************************************)
(* numpy on matrices (shape <<r, c>>, row-major entries).                  *)
(***************************************************************************)
Rows(a) == a.shape[1]
Cols(a) == a.shape[2]
At(a, i, j) == a.val[(i - 1) * Cols(a) + j]
\* the r-by-c matrix whose entry (i, j) is f[i, j]
Matrix(r, c, f) ==
    Arr(<<r, c>>, [n \in 1..(r * c) |-> f[((n - 1) \div c) + 1, ((n - 1) % c) + 1]])

\* f[1] + ... + f[n]
RECURSIVE SumTo(_, _)
SumTo(f, n) == IF n = 0 THEN 0 ELSE f[n] + SumTo(f, n - 1)

Scalar(v) == Arr(<<1, 1>>, <<v>>)
zeros(r, c) == Arr(<<r, c>>, [n \in 1..(r * c) |-> 0])
ones(r, c) == Arr(<<r, c>>, [n \in 1..(r * c) |-> 1])

\* np.zeros_like: None becomes a 0-d array holding 0, an empty list an empty
\* 1-d array, an array an array of the same shape
zeros_like(v) ==
    IF IsArr(v) THEN Arr(v.shape, [n \in 1..Len(v.val) |-> 0])
    ELSE IF IsList(v) THEN Arr(<<Len(v.items)>>, [n \in 1..Len(v.items) |-> 0])
    ELSE Arr(<<>>, <<0>>)

IsZero(a) == IsArr(a) /\ \A n \in 1..Len(a.val) : a.val[n] = 0

\* a.T
T(a) == Matrix(Cols(a), Rows(a), [i \in 1..Cols(a), j \in 1..Rows(a) |-> At(a, j, i)])

\* np.dot(a, b) is defined when the inner dimensions agree
CanDot(a, b) == Cols(a) = Rows(b)
dot(a, b) ==
    Matrix(Rows(a), Cols(b),
           [i \in 1..Rows(a), j \in 1..Cols(b) |->
               SumTo([k \in 1..Cols(a) |-> At(a, i, k) * At(b, k, j)], Cols(a))])

\* the operand of a broadcast operation as a matrix: a list is converted by
\* np.asarray, a 1-d array of length n is read as shape (1, n)
AsMatrix(a) ==
    IF IsList(a) THEN Arr(<<1, Len(a.items)>>, a.items)
    ELSE IF Len(a.shape) = 2 THEN a
    ELSE IF Len(a.shape) = 1 THEN Arr(<<1, a.shape[1]>>, a.val)
    ELSE Arr(<<1, 1>>, a.val)
BDim(m, n) == IF m = n THEN m ELSE IF m = 1 THEN n ELSE m
CanBroadcastMatrices(p, q) ==
    /\ (Rows(p) = Rows(q) \/ Rows(p) = 1 \/ Rows(q) = 1)
    /\ (Cols(p) = Cols(q) \/ Cols(p) = 1 \/ Cols(q) = 1)
CanBroadcast(a, b) == CanBroadcastMatrices(AsMatrix(a), AsMatrix(b))
NDim(a) == IF IsList(a) THEN 1 ELSE Len(a.shape)
\* the elementwise operation on two matrices, each stretched along the
\* dimensions in which it has size 1
\* the matrix p stretched to r rows and c columns along the dimensions in
\* which it has size 1
Stretch(p, r, c) ==
    Matrix(r, c, [i \in 1..r, j \in 1..c |->
                     At(p, IF Rows(p) = 1 THEN 1 ELSE i, IF Cols(p) = 1 THEN 1 ELSE j)])
\* the two operands of an elementwise operation stretched to their common
\* shape, each as a matrix
BroadcastMatrices(p, q) ==
    [p |-> Stretch(p, BDim(Rows(p), Rows(q)), BDim(Cols(p), Cols(q))),
     q |-> Stretch(q, BDim(Rows(p), Rows(q)), BDim(Cols(p), Cols(q)))]
\* the matrix m given back with nd dimensions
WithNDim(m, nd) ==
    IF nd = 2 THEN m
    ELSE IF nd = 1 THEN Arr(<<Cols(m)>>, m.val)
    ELSE Arr(<<>>, m.val)
\* the result of an elementwise operation: entries vals in the common shape
\* of the stretched operands bc, with as many dimensions as the operand of
\* a and b that has the most
Broadcast(bc, vals, a, b) ==
    WithNDim(Arr(bc.p.shape, vals), IF NDim(a) > NDim(b) THEN NDim(a) ELSE NDim(b))
Plus(bc) == [n \in 1..Len(bc.p.val) |-> bc.p.val[n] + bc.q.val[n]]
Minus(bc) == [n \in 1..Len(bc.p.val) |-> bc.p.val[n] - bc.q.val[n]]
Times(bc) == [n \in 1..Len(bc.p.val) |-> bc.p.val[n] * bc.q.val[n]]
add(a, b) == Broadcast(BroadcastMatrices(AsMatrix(a), AsMatrix(b)),
                       Plus(BroadcastMatrices(AsMatrix(a), AsMatrix(b))), a, b)
sub(a, b) == Broadcast(BroadcastMatrices(AsMatrix(a), AsMatrix(b)),
                       Minus(BroadcastMatrices(AsMatrix(a), AsMatrix(b))), a, b)
mul(a, b) == Broadcast(BroadcastMatrices(AsMatrix(a), AsMatrix(b)),
                       Times(BroadcastMatrices(AsMatrix(a), AsMatrix(b))), a, b)
\* c * a for a number c
scale(c, a) == Arr(a.shape, [n \in 1..Len(a.val) |-> c * a.val[n]])

\* a.sum(axis=0, keepdims=True)
sum_axis0(a) ==
    Matrix(1, Cols(a),
           [i \in 1..1, j \in 1..Cols(a) |->
               SumTo([k \in 1..Rows(a) |-> At(a, k, j)], Rows(a))])

\* a.sum(axis=0)
sum0(a) == Arr(<<Cols(a)>>, sum_axis0(a).val)

\* np.hstack([a, b]) of two matrices with the same number of rows
hstack(a, b) ==
    Matrix(Rows(a), Cols(a) + Cols(b),
           [i \in 1..Rows(a), j \in 1..(Cols(a) + Cols(b)) |->
               IF j <= Cols(a) THEN At(a, i, j) ELSE At(b, i, j - Cols(a))])

\* a[:, lo:hi] (0-based, hi exclusive)
cols_slice(a, lo, hi) ==
    Matrix(Rows(a), hi - lo, [i \in 1..Rows(a), j \in 1..(hi - lo) |-> At(a, i, lo + j)])

(***************************************************************************)
(* Collaborators: the activation (here the rectifier, fn(z) = max(z, 0)    *)
(* and grad(z) = 1 where z > 0) and the optimizer (plain gradient descent  *)
(* with learning rate LearningRate and no momentum).                       *)
(***************************************************************************)
LearningRate == 1
ReLU(z) == IF z > 0 THEN z ELSE 0
ReLUGrad(z) == IF z > 0 THEN 1 ELSE 0
act_fn(a) == Arr(a.shape, [n \in 1..Len(a.val) |-> ReLU(a.val[n])])
act_grad(a) == Arr(a.shape, [n \in 1..Len(a.val) |-> ReLUGrad(a.val[n])])
Optimizer(param, grad, key) ==
    IF IsArr(param) /\ IsArr(grad) /\ CanBroadcast(param, grad)
    THEN sub(param, scale(LearningRate, grad))
    ELSE param

(***************************************************************************)
(* The layer object as a record, and the two ways a call ends.             *)
(***************************************************************************)
Self ==
    [X |-> X, parameters |-> parameters, gradients |-> gradients,
     derived_variables |-> derived_variables, is_initialized |-> is_initialized,
     attrs |-> attrs]
PyInt(n) == [py |-> "int", v |-> n]
Str(t) == [py |-> "str", v |-> t]
\* ActivationInitializer(name)(): the activation object of that name
ActivationInitializer(name) == [py |-> "activation", name |-> name]
IsActivation(a) == a.py = "activation"
\* OptimizerInitializer(entry)(): the optimizer built from a name, None or the
\* optimizer entry of a summary
OptimizerInitializer(entry) == [py |-> "optimizer", entry |-> entry]
Return(st, ret) == [st |-> st, ok |-> TRUE, exc |-> "", ret |-> ret, read |-> EmptyDict]
ReturnRead(st, ret, read) == [st |-> st, ok |-> TRUE, exc |-> "", ret |-> ret, read |-> read]
Raise(st, exc) == [st |-> st, ok |-> FALSE, exc |-> exc, ret |-> None, read |-> EmptyDict]

(***************************************************************************)
(* Inputs: the minibatches fed to forward, the upstream gradients fed to   *)
(* backward, and the weights the initializer may return.  Every minibatch  *)
(* holds one example of one feature.                                       *)
(***************************************************************************)
InputValues == {Scalar(1), Scalar(2)}
GradValues == {Scalar(1), Scalar(2)}
Fill(r, c, w) == Arr(<<r, c>>, [n \in 1..(r * c) |-> w])
RNNCellWeights == {[Waa |-> 1, Wax |-> 1], [Waa |-> -1, Wax |-> 2]}
LSTMCellWeights == {[Wf |-> 1, Wu |-> 1, Wc |-> 1, Wo |-> 1]}

(***************************************************************************)
(* LayerBase                                                               *)
(***************************************************************************)
\* LayerBase.flush_gradients
LayerBase_flush_gradients(st) ==
    IF ~trainable THEN Raise(st, "AssertionError")
    ELSE Return([st EXCEPT
            !.X = List(<<>>),
            !.derived_variables = [k \in DOMAIN st.derived_variables |-> None],
            !.gradients = [k \in DOMAIN st.gradients |-> zeros_like(st.gradients[k])]],
          None)

\* the loop of LayerBase.update over the gradient keys still to visit: for
\* a key that is also a parameter key, the optimizer is called with the
\* current value, the gradient and the key, and what it returns is stored;
\* log is the sequence of the optimizer calls made so far
RECURSIVE LayerBase_update_loop(_, _, _)
LayerBase_update_loop(st, keys, log) ==
    IF keys = {} THEN [st |-> st, log |-> log]
    ELSE LET k == CHOOSE x \in keys : TRUE
         IN IF k \in DOMAIN st.parameters
            THEN LayerBase_update_loop(
                     [st EXCEPT !.parameters[k] =
                                    Optimizer(st.parameters[k], st.gradients[k], k)],
                     keys \ {k},
                     Append(log, [key |-> k, value |-> st.parameters[k],
                                  grad |-> st.gradients[k]]))
            ELSE LayerBase_update_loop(st, keys \ {k}, log)

\* the parameters as the loop keeps them
LayerBase_update_parameters_skipped(st) == st.parameters

\* the parameters and the optimizer calls when the loop of LayerBase.update
\* is done
LayerBase_update_parameters(st) ==
    LayerBase_update_loop(st, DOMAIN st.gradients, <<>>).st.parameters
LayerBase_update_calls(st) ==
    LayerBase_update_loop(st, DOMAIN st.gradients, <<>>).log

(***************************************************************************)
(* RNNCell                                                                 *)
(***************************************************************************)
RNNCell_init_params(st, n_in, w) ==
    LET n_out == st.attrs.n_out
        Wax == Fill(n_in, n_out, w.Wax)
        Waa == Fill(n_out, n_out, w.Waa)
        ba == zeros(n_out, 1)
        bx == zeros(n_out, 1)
    IN [st EXCEPT
          !.X = List(<<>>),
          !.parameters = [Waa |-> Waa, Wax |-> Wax, ba |-> ba, bx |-> bx],
          !.gradients = [Waa |-> zeros_like(Waa), Wax |-> zeros_like(Wax),
                         ba |-> zeros_like(ba), bx |-> zeros_like(bx)],
          !.derived_variables = [A |-> List(<<>>), Z |-> List(<<>>),
                                 n_timesteps |-> 0, current_step |-> 0,
                                 dLdA_accumulator |-> None],
          !.attrs = [@ EXCEPT !.n_in = PyInt(n_in)],
          !.is_initialized = TRUE]

\* the body of RNNCell.forward on the initialised cell s0 whose counters
\* have been incremented, As being the hidden states with the zero state in
\* front
RNNCell_forward_step(s0, Xt, As, Zt) ==
    Return([s0 EXCEPT
              !.X = List(Append(s0.X.items, Xt)),
              !.derived_variables = [@ EXCEPT !["Z"] = List(Append(@.items, Zt)),
                                              !["A"] = List(Append(As, act_fn(Zt)))]],
           act_fn(Zt))

\* compute next hidden state
RNNCell_forward_state(s0, Xt, As) ==
    RNNCell_forward_step(s0, Xt, As,
        add(add(add(dot(GetItem(As, -1), s0.parameters["Waa"]), T(s0.parameters["ba"])),
                dot(Xt, s0.parameters["Wax"])),
            T(s0.parameters["bx"])))

\* the hidden state of every call taken to be zero
RNNCell_forward_from_zero(s0, Xt) ==
    RNNCell_forward_state(
        [s0 EXCEPT !.derived_variables = [@ EXCEPT !["n_timesteps"] = @ + 1,
                                                   !["current_step"] = @ + 1]],
        Xt,
        IF Len(s0.derived_variables["A"].items) = 0
        THEN <<zeros(Rows(Xt), s0.attrs.n_out)>>
        ELSE [s0.derived_variables["A"].items EXCEPT
                 ![Len(s0.derived_variables["A"].items)] = zeros(Rows(Xt), s0.attrs.n_out)])

\* increment timestep, initialize the hidden state to zero
RNNCell_forward_initialized(s0, Xt) ==
    RNNCell_forward_state(
        [s0 EXCEPT !.derived_variables = [@ EXCEPT !["n_timesteps"] = @ + 1,
                                                   !["current_step"] = @ + 1]],
        Xt,
        IF Len(s0.derived_variables["A"].items) = 0
        THEN <<zeros(Rows(Xt), s0.attrs.n_out)>>
        ELSE s0.derived_variables["A"].items)

RNNCell_forward(st, Xt, w) ==
    RNNCell_forward_initialized(
        IF ~st.is_initialized THEN RNNCell_init_params(st, Cols(Xt), w) ELSE st, Xt)

\* the end of RNNCell.backward: the gradient arithmetic at list index t
\* with dZ known
\* the bias gradient of the input path left as it was
RNNCell_backward_step_one_bias(s1, t, dZ) ==
    ReturnRead([s1 EXCEPT
                 !.gradients = [@ EXCEPT
                     !["Waa"] = add(@, dot(T(GetItem(s1.derived_variables["A"].items, t)), dZ)),
                     !["Wax"] = add(@, dot(T(GetItem(s1.X.items, t)), dZ)),
                     !["ba"] = add(@, T(sum_axis0(dZ)))],
                 !.derived_variables =
                     [@ EXCEPT !["dLdA_accumulator"] = dot(dZ, T(s1.parameters["Waa"]))]],
              dot(dZ, T(s1.parameters["Wax"])),
              [Z |-> Position(s1.derived_variables["Z"].items, t),
               A |-> Position(s1.derived_variables["A"].items, t),
               X |-> Position(s1.X.items, t)])

RNNCell_backward_step(s1, t, dZ) ==
    ReturnRead([s1 EXCEPT
                 !.gradients = [@ EXCEPT
                     !["Waa"] = add(@, dot(T(GetItem(s1.derived_variables["A"].items, t)), dZ)),
                     !["Wax"] = add(@, dot(T(GetItem(s1.X.items, t)), dZ)),
                     !["ba"] = add(@, T(sum_axis0(dZ))),
                     !["bx"] = add(@, T(sum_axis0(dZ)))],
                 !.derived_variables =
                     [@ EXCEPT !["dLdA_accumulator"] = dot(dZ, T(s1.parameters["Waa"]))]],
              dot(dZ, T(s1.parameters["Wax"])),
              [Z |-> Position(s1.derived_variables["Z"].items, t),
               A |-> Position(s1.derived_variables["A"].items, t),
               X |-> Position(s1.X.items, t)])

\* dXt = np.dot(dZ, Wax.T) and the reads of As[t] and X[t]
RNNCell_backward_dZ(s1, t, dZ) ==
    IF ~CanDot(dZ, T(s1.parameters["Wax"])) THEN Raise(s1, "ValueError")
    ELSE IF \/ ~ValidIndex(s1.derived_variables["A"].items, t)
            \/ ~ValidIndex(s1.X.items, t)
         THEN Raise(s1, "IndexError")
    ELSE RNNCell_backward_step(s1, t, dZ)

\* dA = dLdAt + dA_acc
RNNCell_backward_dA(s1, t, dA) ==
    IF ~ValidIndex(s1.derived_variables["Z"].items, t) THEN Raise(s1, "IndexError")
    ELSE IF ~CanBroadcast(act_grad(GetItem(s1.derived_variables["Z"].items, t)), dA)
         THEN Raise(s1, "ValueError")
    ELSE RNNCell_backward_dZ(s1, t,
             mul(act_grad(GetItem(s1.derived_variables["Z"].items, t)), dA))

\* compute gradient components at timestep t
RNNCell_backward_acc(s1, dLdAt, t, dA_acc) ==
    IF ~CanBroadcast(dLdAt, dA_acc) THEN Raise(s1, "ValueError")
    ELSE RNNCell_backward_dA(s1, t, add(dLdAt, dA_acc))

\* extract context variables, initialize accumulator
RNNCell_backward_decremented(s1, dLdAt) ==
    IF ~HasKey(s1.derived_variables, "Z") THEN Raise(s1, "KeyError")
    ELSE IF /\ IsNone(s1.derived_variables["dLdA_accumulator"])
            /\ ~ValidIndex(s1.derived_variables["A"].items, 0)
         THEN Raise(s1, "IndexError")
    ELSE RNNCell_backward_acc(s1, dLdAt, s1.derived_variables["current_step"],
             IF IsNone(s1.derived_variables["dLdA_accumulator"])
             THEN zeros_like(GetItem(s1.derived_variables["A"].items, 0))
             ELSE s1.derived_variables["dLdA_accumulator"])

RNNCell_backward(st, dLdAt) ==
    IF ~trainable THEN Raise(st, "AssertionError")
    ELSE IF ~HasKey(st.derived_variables, "current_step") THEN Raise(st, "KeyError")
    ELSE \* decrement current step
         RNNCell_backward_decremented(
             [st EXCEPT !.derived_variables["current_step"] = @ - 1], dLdAt)

\* a flush that clears the caches and the counters and forgets the gradients
RNNCell_flush_gradients_caches_only(st) ==
    IF ~trainable THEN Raise(st, "AssertionError")
    ELSE Return([st EXCEPT
            !.X = List(<<>>),
            !.derived_variables =
                SetItem(SetItem([k \in DOMAIN @ |-> List(<<>>)], "n_timesteps", 0),
                        "current_step", 0)],
          None)

\* flush_gradients without the assertion that the layer is trainable
RNNCell_flush_gradients_unguarded(st) ==
    Return([st EXCEPT
              !.X = List(<<>>),
              !.derived_variables =
                  SetItem(SetItem([k \in DOMAIN @ |-> List(<<>>)], "n_timesteps", 0),
                          "current_step", 0),
              !.gradients = [k \in (DOMAIN @) \cup (DOMAIN st.parameters) |->
                                IF k \in DOMAIN st.parameters
                                THEN zeros_like(st.parameters[k])
                                ELSE @[k]]],
           None)

RNNCell_flush_gradients(st) ==
    IF ~trainable THEN Raise(st, "AssertionError")
    ELSE
      LET dv0 == [k \in DOMAIN st.derived_variables |-> List(<<>>)]
          dv1 == SetItem(SetItem(dv0, "n_timesteps", 0), "current_step", 0)
          \* reset parameter gradients to 0
          g == [k \in (DOMAIN st.gradients) \cup (DOMAIN st.parameters) |->
                   IF k \in DOMAIN st.parameters
                   THEN zeros_like(st.parameters[k])
                   ELSE st.gradients[k]]
      IN Return([st EXCEPT !.X = List(<<>>), !.derived_variables = dv1, !.gradients = g],
                None)

(***************************************************************************)
(* LSTMCell                                                                *)
(***************************************************************************)
Tuple(s) == [py |-> "tuple", items |-> s]
\* the gate activation: a sigmoid cut to straight pieces, 0 below 0, 1 above 1,
\* the identity in between, with slope 1 on the closed middle piece
HardSigmoid(z) == IF z > 1 THEN 1 ELSE IF z < 0 THEN 0 ELSE z
HardSigmoidGrad(z) == IF z >= 0 /\ z <= 1 THEN 1 ELSE 0
gate_fn(a) == Arr(a.shape, [n \in 1..Len(a.val) |-> HardSigmoid(a.val[n])])
gate_grad(a) == Arr(a.shape, [n \in 1..Len(a.val) |-> HardSigmoidGrad(a.val[n])])

LSTMCell_init_params(st, n_in, w) ==
    LET n_out == st.attrs.n_out
        Wf == Fill(n_in + n_out, n_out, w.Wf)
        Wu == Fill(n_in + n_out, n_out, w.Wu)
        Wc == Fill(n_in + n_out, n_out, w.Wc)
        Wo == Fill(n_in + n_out, n_out, w.Wo)
        bf == zeros(1, n_out)
        bu == zeros(1, n_out)
        bc == zeros(1, n_out)
        bo == zeros(1, n_out)
    IN [st EXCEPT
          !.X = List(<<>>),
          !.parameters = [Wf |-> Wf, Wu |-> Wu, Wc |-> Wc, Wo |-> Wo,
                          bf |-> bf, bu |-> bu, bc |-> bc, bo |-> bo],
          !.gradients = [Wf |-> zeros_like(Wf), Wu |-> zeros_like(Wu),
                         Wc |-> zeros_like(Wc), Wo |-> zeros_like(Wo),
                         bf |-> zeros_like(bf), bu |-> zeros_like(bu),
                         bc |-> zeros_like(bc), bo |-> zeros_like(bo)],
          !.derived_variables = [C |-> List(<<>>), A |-> List(<<>>), Gf |-> List(<<>>),
                                 Gu |-> List(<<>>), Go |-> List(<<>>), Gc |-> List(<<>>),
                                 Cc |-> List(<<>>), n_timesteps |-> 0, current_step |-> 0,
                                 dLdA_accumulator |-> None, dLdC_accumulator |-> None],
          !.attrs = [@ EXCEPT !.n_in = PyInt(n_in)],
          !.is_initialized = TRUE]

\* the end of LSTMCell.forward: the caches appended and the pair returned
LSTMCell_forward_step(s0, Xt, As, Cs, G, Ct) ==
    Return([s0 EXCEPT
              !.X = List(Append(s0.X.items, Xt)),
              !.derived_variables = [@ EXCEPT
                  !["A"] = List(Append(As, mul(G.Got, act_fn(Ct)))),
                  !["C"] = List(Append(Cs, Ct)),
                  !["Gf"] = List(Append(@.items, G.Gft)),
                  !["Gu"] = List(Append(@.items, G.Gut)),
                  !["Go"] = List(Append(@.items, G.Got)),
                  !["Cc"] = List(Append(@.items, G.Cct))]],
           Tuple(<<mul(G.Got, act_fn(Ct)), Ct>>))

\* Ct = Gft * C_prev + Gut * Cct
LSTMCell_forward_gates(s0, Xt, As, Cs, G) ==
    LSTMCell_forward_step(s0, Xt, As, Cs, G,
        add(mul(G.Gft, GetItem(Cs, -1)), mul(G.Gut, G.Cct)))

\* the gates and the candidate cell state computed from Zt
LSTMCell_forward_Zt(s0, Xt, As, Cs, Zt) ==
    LSTMCell_forward_gates(s0, Xt, As, Cs,
        [Gft |-> gate_fn(add(dot(Zt, s0.parameters["Wf"]), s0.parameters["bf"])),
         Gut |-> gate_fn(add(dot(Zt, s0.parameters["Wu"]), s0.parameters["bu"])),
         Got |-> gate_fn(add(dot(Zt, s0.parameters["Wo"]), s0.parameters["bo"])),
         Cct |-> act_fn(add(dot(Zt, s0.parameters["Wc"]), s0.parameters["bc"]))])

\* concatenate A_prev and Xt to create Zt
LSTMCell_forward_states(s0, Xt, As, Cs) ==
    LSTMCell_forward_Zt(s0, Xt, As, Cs, hstack(GetItem(As, -1), Xt))

\* increment the counters; with no hidden state yet, start A and C from zero
LSTMCell_forward_initialized(s0, Xt) ==
    LSTMCell_forward_states(
        [s0 EXCEPT !.derived_variables = [@ EXCEPT !["n_timesteps"] = @ + 1,
                                                   !["current_step"] = @ + 1]],
        Xt,
        IF Len(s0.derived_variables["A"].items) = 0
        THEN <<zeros(Rows(Xt), s0.attrs.n_out)>>
        ELSE s0.derived_variables["A"].items,
        IF Len(s0.derived_variables["A"].items) = 0
        THEN Append(s0.derived_variables["C"].items, zeros(Rows(Xt), s0.attrs.n_out))
        ELSE s0.derived_variables["C"].items)

LSTMCell_forward(st, Xt, w) ==
    LSTMCell_forward_initialized(
        IF ~st.is_initialized THEN LSTMCell_init_params(st, Cols(Xt), w) ELSE st, Xt)

\* what LSTMCell.backward reads at list index t: the caches, Zt, and the
\* two accumulators (zero when they are None)
LSTMCell_backward_caches(dv, Xs, t) ==
    [Got |-> GetItem(dv["Go"].items, t),
     Gft |-> GetItem(dv["Gf"].items, t),
     Gut |-> GetItem(dv["Gu"].items, t),
     Cct |-> GetItem(dv["Cc"].items, t),
     Ct |-> GetItem(dv["C"].items, t + 1),
     C_prev |-> GetItem(dv["C"].items, t),
     Zt |-> hstack(GetItem(dv["A"].items, t), GetItem(Xs, t)),
     dA_acc |-> IF IsNone(dv["dLdA_accumulator"])
                THEN zeros_like(GetItem(dv["A"].items, t + 1))
                ELSE dv["dLdA_accumulator"],
     dC_acc |-> IF IsNone(dv["dLdC_accumulator"])
                THEN zeros_like(GetItem(dv["C"].items, t + 1))
                ELSE dv["dLdC_accumulator"],
     read |-> [Go |-> Position(dv["Go"].items, t), Gf |-> Position(dv["Gf"].items, t),
               Gu |-> Position(dv["Gu"].items, t), Cc |-> Position(dv["Cc"].items, t),
               A |-> Position(dv["A"].items, t + 1), C |-> Position(dv["C"].items, t + 1),
               C_prev |-> Position(dv["C"].items, t), A_prev |-> Position(dv["A"].items, t),
               X |-> Position(Xs, t)]]

LSTMCell_backward_valid(dv, Xs, t) ==
    /\ ValidIndex(dv["Go"].items, t) /\ ValidIndex(dv["Gf"].items, t)
    /\ ValidIndex(dv["Gu"].items, t) /\ ValidIndex(dv["Cc"].items, t)
    /\ ValidIndex(dv["A"].items, t + 1) /\ ValidIndex(dv["C"].items, t + 1)
    /\ ValidIndex(dv["C"].items, t) /\ ValidIndex(dv["A"].items, t)
    /\ ValidIndex(Xs, t)

\* the end of LSTMCell.backward: the gradients added to, the accumulators
\* assigned, dXt returned
LSTMCell_backward_step(s1, c, dC, d, dZ) ==
    ReturnRead([s1 EXCEPT
                 !.gradients = [@ EXCEPT
                     !["Wc"] = add(@, dot(T(c.Zt), d.dCct)),
                     !["Wu"] = add(@, dot(T(c.Zt), d.dGut)),
                     !["Wf"] = add(@, dot(T(c.Zt), d.dGft)),
                     !["Wo"] = add(@, dot(T(c.Zt), d.dGot)),
                     !["bo"] = add(@, sum_axis0(d.dGot)),
                     !["bu"] = add(@, sum_axis0(d.dGut)),
                     !["bf"] = add(@, sum_axis0(d.dGft)),
                     !["bc"] = add(@, sum_axis0(d.dCct))],
                 !.derived_variables = [@ EXCEPT
                     !["dLdA_accumulator"] = cols_slice(dZ, 0, s1.attrs.n_out),
                     !["dLdC_accumulator"] = mul(c.Gft, dC)]],
              cols_slice(dZ, s1.attrs.n_out, Cols(dZ)),
              c.read)

LSTMCell_backward_gates(s1, c, dC, d) ==
    IF ~CanDot(d.dGft, T(s1.parameters["Wf"])) THEN Raise(s1, "ValueError")
    ELSE LSTMCell_backward_step(s1, c, dC, d,
             add(add(add(dot(d.dGft, T(s1.parameters["Wf"])),
                         dot(d.dGut, T(s1.parameters["Wu"]))),
                     dot(d.dCct, T(s1.parameters["Wc"]))),
                 dot(d.dGot, T(s1.parameters["Wo"]))))

\* compute the input to the gate functions at timestep t, then the
\* gradients wrt the *input* to each gate
LSTMCell_backward_dC(s1, c, dA, dC) ==
    LSTMCell_backward_gates(s1, c, dC,
        [dGot |-> mul(mul(dA, act_fn(c.Ct)),
                      gate_grad(add(dot(c.Zt, s1.parameters["Wo"]), s1.parameters["bo"]))),
         dCct |-> mul(mul(dC, c.Gut),
                      act_grad(add(dot(c.Zt, s1.parameters["Wc"]), s1.parameters["bc"]))),
         dGut |-> mul(mul(dC, c.Cct),
                      gate_grad(add(dot(c.Zt, s1.parameters["Wu"]), s1.parameters["bo"]))),
         dGft |-> mul(mul(dC, c.C_prev),
                      gate_grad(add(dot(c.Zt, s1.parameters["Wf"]), s1.parameters["bo"])))])

\* dC = dC_acc + dA * Got * act_fn.grad(Ct)
LSTMCell_backward_dA(s1, c, dA) ==
    LSTMCell_backward_dC(s1, c, dA, add(c.dC_acc, mul(mul(dA, c.Got), act_grad(c.Ct))))

\* dA = dLdAt + dA_acc
LSTMCell_backward_acc(s1, dLdAt, c) ==
    IF ~CanBroadcast(dLdAt, c.dA_acc) THEN Raise(s1, "ValueError")
    ELSE LSTMCell_backward_dA(s1, c, add(dLdAt, c.dA_acc))

LSTMCell_backward_decremented(s1, dLdAt) ==
    IF ~HasKey(s1.derived_variables, "Go") THEN Raise(s1, "KeyError")
    ELSE IF ~LSTMCell_backward_valid(s1.derived_variables, s1.X.items,
                                     s1.derived_variables["current_step"])
         THEN Raise(s1, "IndexError")
    ELSE LSTMCell_backward_acc(s1, dLdAt,
             LSTMCell_backward_caches(s1.derived_variables, s1.X.items,
                                      s1.derived_variables["current_step"]))

LSTMCell_backward(st, dLdAt) ==
    IF ~trainable THEN Raise(st, "AssertionError")
    ELSE IF ~HasKey(st.derived_variables, "current_step") THEN Raise(st, "KeyError")
    ELSE LSTMCell_backward_decremented(
             [st EXCEPT !.derived_variables["current_step"] = @ - 1], dLdAt)

LSTMCell_flush_gradients(st) == RNNCell_flush_gradients(st)

(***************************************************************************)
(* The other layers.  Every volume has one row and one column and every    *)
(* kernel is 1 x 1 with stride 1, no padding and no dilation, so a volume  *)
(* is stored as its (n_ex, channels) matrix, a kernel as its               *)
(* (in_ch, out_ch) matrix, and convolution is the matrix product.          *)
(***************************************************************************)
LayerWeights == {[W |-> 1, scaler |-> 1], [W |-> 2, scaler |-> 3]}
ListInputs == {List(<<Scalar(1), Scalar(2)>>), List(<<Scalar(2), Scalar(3)>>)}

\* ---- FullyConnected ----
FullyConnected_init_params(st, n_in, w) ==
    LET b == zeros(1, st.attrs.n_out)
        W == Fill(n_in, st.attrs.n_out, w.W)
    IN [st EXCEPT
          !.parameters = [W |-> W, b |-> b],
          !.derived_variables = [Z |-> None, Y |-> None],
          !.gradients = [W |-> zeros_like(W), b |-> zeros_like(b)],
          !.attrs = [@ EXCEPT !.n_in = PyInt(n_in)],
          !.is_initialized = TRUE]

FullyConnected_forward(st, Xin, w) ==
    LET s0 == IF ~st.is_initialized THEN FullyConnected_init_params(st, Cols(Xin), w)
              ELSE st
        W == s0.parameters["W"]
        b == s0.parameters["b"]
        Z == add(dot(Xin, W), b)
        Y == act_fn(Z)
    IN IF ~CanDot(Xin, W) THEN Raise([s0 EXCEPT !.X = Xin], "ValueError")
       \* self.act_fn.fn of an act_fn that is a string
       ELSE IF ~IsActivation(s0.attrs.act_fn)
       THEN Raise([s0 EXCEPT !.X = Xin], "AttributeError")
       ELSE Return([s0 EXCEPT !.X = Xin, !.derived_variables = [Z |-> Z, Y |-> Y]], Y)

FullyConnected_backward(st, dLdY) ==
    IF ~trainable THEN Raise(st, "AssertionError")
    ELSE IF IsNone(st.X) THEN Raise(st, "AssertionError")
    ELSE IF ~HasKey(st.derived_variables, "Z") THEN Raise(st, "KeyError")
    \* self.act_fn.grad of an act_fn that is a string
    ELSE IF ~IsActivation(st.attrs.act_fn) THEN Raise(st, "AttributeError")
    ELSE IF ~IsArr(st.derived_variables["Z"]) THEN Raise(st, "TypeError")
    ELSE IF ~IsArr(st.X) THEN Raise(st, "AttributeError")
    ELSE
      LET W == st.parameters["W"]
          Z == st.derived_variables["Z"]
          dZ == mul(dLdY, act_grad(Z))
          dW == dot(T(st.X), dZ)
          dB == sum_axis0(dZ)
          dX == dot(dZ, T(W))
      IN Return([st EXCEPT !.gradients = [W |-> dW, b |-> dB, Z |-> dZ, Y |-> dLdY]], dX)

\* ---- BatchNorm1D / BatchNorm2D ----
\* np.zeros(n) and np.ones(n); n = None gives a 0-d array
zeros1(n) == IF IsNone(n) THEN Arr(<<>>, <<0>>) ELSE Arr(<<n.v>>, [i \in 1..n.v |-> 0])
ones1(n) == IF IsNone(n) THEN Arr(<<>>, <<1>>) ELSE Arr(<<n.v>>, [i \in 1..n.v |-> 1])
\* a.mean(axis=0) and a.var(axis=0) of a one-example batch
mean_axis0(a) == Arr(<<Cols(a)>>, [j \in 1..Cols(a) |-> At(a, 1, j)])
var_axis0(a) == Arr(<<Cols(a)>>, [j \in 1..Cols(a) |-> 0])
\* scaler * (X - mean) / sqrt(var + epsilon) + intercept, kept as its terms
Normalised(scaler, Xin, mean, var, intercept) ==
    [py |-> "normalised", scaler |-> scaler, centred |-> sub(Xin, mean),
     var |-> var, intercept |-> intercept]

BatchNorm_init_params(st, n, w) ==
    LET scaler == Arr(<<n>>, [i \in 1..n |-> w.scaler])
        intercept == zeros1(PyInt(n))
        running_mean == zeros1(PyInt(n))
        running_var == ones1(PyInt(n))
    IN [st EXCEPT
          !.parameters = [scaler |-> scaler, intercept |-> intercept,
                          running_var |-> running_var, running_mean |-> running_mean],
          !.gradients = [scaler |-> zeros_like(scaler), intercept |-> zeros_like(intercept)],
          !.attrs = [@ EXCEPT !.n_in = PyInt(n)],
          !.is_initialized = TRUE]

BatchNorm_reset_running_stats(st) ==
    IF ~trainable THEN Raise(st, "AssertionError")
    ELSE Return([st EXCEPT
            !.parameters = SetItem(SetItem(@, "running_mean", zeros1(st.attrs.n_in)),
                                   "running_var", ones1(st.attrs.n_in))],
          None)

\* the running statistics replaced whether or not the layer is trainable
BatchNorm_forward_always_tracking(st, Xin, w) ==
    LET s0 == IF ~st.is_initialized THEN BatchNorm_init_params(st, Cols(Xin), w) ELSE st
        mm == s0.attrs.momentum
        rm == s0.parameters["running_mean"]
        rv == s0.parameters["running_var"]
    IN Return([s0 EXCEPT !.X = Xin,
                  !.parameters = [@ EXCEPT
                      !["running_mean"] = add(scale(mm, rm), scale(1 - mm, mean_axis0(Xin))),
                      !["running_var"] = add(scale(mm, rv), scale(1 - mm, var_axis0(Xin)))]],
              Normalised(s0.parameters["scaler"], Xin,
                         IF trainable THEN mean_axis0(Xin) ELSE rm,
                         IF trainable THEN var_axis0(Xin) ELSE rv,
                         s0.parameters["intercept"]))

BatchNorm_forward(st, Xin, w) ==
    LET s0 == IF ~st.is_initialized THEN BatchNorm_init_params(st, Cols(Xin), w) ELSE st
        mm == s0.attrs.momentum
        rm == s0.parameters["running_mean"]
        rv == s0.parameters["running_var"]
        scaler == s0.parameters["scaler"]
        intercept == s0.parameters["intercept"]
        X_mean == IF trainable THEN mean_axis0(Xin) ELSE rm
        X_var == IF trainable THEN var_axis0(Xin) ELSE rv
        P == IF trainable
             THEN [s0.parameters EXCEPT
                      !["running_mean"] = add(scale(mm, rm), scale(1 - mm, X_mean)),
                      !["running_var"] = add(scale(mm, rv), scale(1 - mm, X_var))]
             ELSE s0.parameters
    IN Return([s0 EXCEPT !.X = Xin, !.parameters = P],
              Normalised(scaler, Xin, X_mean, X_var, intercept))

BatchNorm_backward(st, dLdy) ==
    IF ~trainable THEN Raise(st, "AssertionError")
    ELSE IF ~IsArr(st.X) THEN Raise(st, "AttributeError")
    ELSE
      LET scaler == st.parameters["scaler"]
          n_ex == Rows(st.X)
          \* N = (X - X.mean) / sqrt(X.var + ep) is 0 for a one-example batch
          N == zeros_like(st.X)
          dIntercept == sum0(dLdy)
          dScaler == sum0(mul(dLdy, N))
          dN == mul(dLdy, scaler)
          \* dX is this numerator divided by n_ex * sqrt(X.var + ep); the
          \* numerator is 0 for a one-example batch
          dX == sub(sub(mul(Scalar(n_ex), dN), sum0(dN)), mul(N, sum0(mul(dN, N))))
      IN Return([st EXCEPT !.gradients = [scaler |-> dScaler, intercept |-> dIntercept]],
                dX)

\* ---- Pool2D ----
\* An input volume is modelled by the image of its one example and one
\* channel, a matrix of in_rows by in_cols; the mode is "max".
Smaller(m, n) == IF m < n THEN m ELSE n
\* a[i0:i1, j0:j1] (0-based, the ends exclusive and cut at the shape of a)
Slice(a, i0, i1, j0, j1) ==
    Matrix(Smaller(i1, Rows(a)) - Smaller(i0, Rows(a)),
           Smaller(j1, Cols(a)) - Smaller(j0, Cols(a)),
           [i \in 1..(Smaller(i1, Rows(a)) - Smaller(i0, Rows(a))),
            j \in 1..(Smaller(j1, Cols(a)) - Smaller(j0, Cols(a))) |->
               At(a, Smaller(i0, Rows(a)) + i, Smaller(j0, Cols(a)) + j)])
\* pad2D(X, p, kernel_shape, stride) for an integer p: p rows and p columns
\* of zeros on each side
pad2D(Xm, p) ==
    Matrix(Rows(Xm) + 2 * p, Cols(Xm) + 2 * p,
           [i \in 1..(Rows(Xm) + 2 * p), j \in 1..(Cols(Xm) + 2 * p) |->
               IF i > p /\ i <= Rows(Xm) + p /\ j > p /\ j <= Cols(Xm) + p
               THEN At(Xm, i - p, j - p) ELSE 0])
\* np.floor(1 + (n + 2 p - f) / s)
OutSize(n, p, f, s) == ((n + 2 * p - f) \div s) + 1
\* np.max of a non-empty array
amax(a) == CHOOSE m \in {a.val[n] : n \in 1..Len(a.val)} :
              \A n \in 1..Len(a.val) : a.val[n] <= m
\* np.argwhere(a == np.max(a))[0]: the first entry, in row-major order, that
\* holds the maximum, as an index into the entries of a
argfirst(a) == CHOOSE n \in 1..Len(a.val) :
                  /\ a.val[n] = amax(a)
                  /\ \A k \in 1..(n - 1) : a.val[k] # amax(a)
\* the window of output position n (0-based, row-major over out_cols
\* columns) cut from the image a: rows i s .. i s + fr, columns
\* j s .. j s + fc
WindowOf(a, k, s, ocols, n) ==
    Slice(a, (n \div ocols) * s, (n \div ocols) * s + k[1],
             (n % ocols) * s, (n % ocols) * s + k[2])

Pool2D_init_params(st, in_ch) ==
    [st EXCEPT
       !.derived_variables = [out_rows |-> None, out_cols |-> None, masks |-> List(<<>>)],
       !.attrs = [@ EXCEPT !.n_in = PyInt(in_ch)],
       !.is_initialized = TRUE]

\* the loops of Pool2D.forward over the output positions
Pool2D_pooled(X_pad, k, s, orows, ocols) ==
    Matrix(orows, ocols,
           [i \in 1..orows, j \in 1..ocols |->
               amax(WindowOf(X_pad, k, s, ocols, (i - 1) * ocols + (j - 1)))])

Pool2D_forward_padded(s0, Xin, X_pad, k, s, orows, ocols) ==
    Return([s0 EXCEPT
              !.X = Xin,
              !.derived_variables = [@ EXCEPT !["out_rows"] = PyInt(orows),
                                              !["out_cols"] = PyInt(ocols)]],
           Pool2D_pooled(X_pad, k, s, orows, ocols))

Pool2D_forward(st, Xin, w) ==
    Pool2D_forward_padded(
        IF ~st.is_initialized THEN Pool2D_init_params(st, 1) ELSE st,
        Xin, pad2D(Xin, st.attrs.pad), st.attrs.kernel_shape, st.attrs.stride,
        OutSize(Rows(Xin), st.attrs.pad, st.attrs.kernel_shape[1], st.attrs.stride),
        OutSize(Cols(Xin), st.attrs.pad, st.attrs.kernel_shape[2], st.attrs.stride))

\* mask * dy stretched to the fr-by-fc slice of dX: entry (u, v) of the
\* product of dy and the mask that is True at the first maximum of xi
MaskedUpstream(xi, dy, u, v) ==
    IF (IF Rows(xi) = 1 THEN 1 ELSE u) = ((argfirst(xi) - 1) \div Cols(xi)) + 1
       /\ (IF Cols(xi) = 1 THEN 1 ELSE v) = ((argfirst(xi) - 1) % Cols(xi)) + 1
    THEN dy ELSE 0

\* dX[i0:i1, j0:j1] += mask * dy for output position n
Pool2D_backward_add(dX, xi, dy, k, s, ocols, n) ==
    Matrix(Rows(dX), Cols(dX),
           [a \in 1..Rows(dX), b \in 1..Cols(dX) |->
               At(dX, a, b) +
               IF /\ a > (n \div ocols) * s /\ a <= (n \div ocols) * s + k[1]
                  /\ b > (n % ocols) * s /\ b <= (n % ocols) * s + k[2]
               THEN MaskedUpstream(xi, dy, a - (n \div ocols) * s, b - (n % ocols) * s)
               ELSE 0])

\* the loops of Pool2D.backward from output position n on; the window xi is
\* cut from self.X, the input without its padding
RECURSIVE Pool2D_backward_windows(_, _, _, _, _, _, _, _)
Pool2D_backward_window(Xm, dLdY, k, s, ocols, total, n, dX, xi) ==
    IF Len(xi.val) = 0 THEN [ok |-> FALSE, exc |-> "ValueError", dX |-> dX]
    ELSE IF Rows(xi) \notin {1, k[1]} \/ Cols(xi) \notin {1, k[2]}
         THEN [ok |-> FALSE, exc |-> "ValueError", dX |-> dX]
    ELSE Pool2D_backward_windows(Xm, dLdY, k, s, ocols, total, n + 1,
             Pool2D_backward_add(dX, xi, At(dLdY, (n \div ocols) + 1, (n % ocols) + 1),
                                 k, s, ocols, n))

Pool2D_backward_windows(Xm, dLdY, k, s, ocols, total, n, dX) ==
    IF n >= total THEN [ok |-> TRUE, exc |-> "", dX |-> dX]
    ELSE Pool2D_backward_window(Xm, dLdY, k, s, ocols, total, n, dX,
                                WindowOf(Xm, k, s, ocols, n))

\* the end of Pool2D.backward: the padding is cut off dX; the call is
\* recorded with the padded dX
Pool2D_backward_cropped(st, p, g) ==
    IF ~g.ok THEN Raise(st, g.exc)
    ELSE ReturnRead(st, Slice(g.dX, p, Rows(g.dX) - p, p, Cols(g.dX) - p), g.dX)

Pool2D_backward(st, dLdY) ==
    IF ~trainable THEN Raise(st, "AssertionError")
    ELSE IF ~IsArr(st.X) THEN Raise(st, "AttributeError")
    ELSE IF ~HasKey(st.derived_variables, "out_rows") THEN Raise(st, "KeyError")
    ELSE IF IsNone(st.derived_variables["out_rows"]) THEN Raise(st, "TypeError")
    ELSE IF Rows(dLdY) < st.derived_variables["out_rows"].v
            \/ Cols(dLdY) < st.derived_variables["out_cols"].v
         THEN Raise(st, "IndexError")
    ELSE Pool2D_backward_cropped(st, st.attrs.pad,
             Pool2D_backward_windows(st.X, dLdY, st.attrs.kernel_shape, st.attrs.stride,
                 st.derived_variables["out_cols"].v,
                 st.derived_variables["out_rows"].v * st.derived_variables["out_cols"].v,
                 0, zeros_like(pad2D(st.X, st.attrs.pad))))

\* ---- Conv1D / Conv2D / Deconv2D ----
Conv_init_params(st, in_ch, w) ==
    LET W == Fill(in_ch, st.attrs.n_out, w.W)
        b == zeros(1, st.attrs.n_out)
    IN [st EXCEPT
          !.parameters = [W |-> W, b |-> b],
          !.gradients = [W |-> zeros_like(W), b |-> zeros_like(b)],
          !.derived_variables = [Z |-> None, out_rows |-> None, out_cols |-> None],
          !.attrs = [@ EXCEPT !.n_in = PyInt(in_ch)],
          !.is_initialized = TRUE]

Conv_forward(st, Xin, w) ==
    LET s0 == IF ~st.is_initialized THEN Conv_init_params(st, Cols(Xin), w) ELSE st
        W == s0.parameters["W"]
        b == s0.parameters["b"]
        Z == add(dot(Xin, W), b)
        Y == act_fn(Z)
    \* conv2D of a volume whose channels are not the in_ch of W
    IN IF ~CanDot(Xin, W) THEN Raise([s0 EXCEPT !.X = Xin], "ValueError")
       \* self.act_fn.fn of an act_fn that is a string
       ELSE IF ~IsActivation(s0.attrs.act_fn)
       THEN Raise([s0 EXCEPT !.X = Xin], "AttributeError")
       ELSE Return([s0 EXCEPT
                 !.X = Xin,
                 !.derived_variables = [@ EXCEPT !["out_rows"] = PyInt(1),
                                                 !["out_cols"] = PyInt(1),
                                                 !["Z"] = Z]],
              Y)

Conv_backward(st, dLdY) ==
    IF ~HasKey(st.derived_variables, "Z") THEN Raise(st, "KeyError")
    \* self.act_fn.grad of an act_fn that is a string
    ELSE IF ~IsActivation(st.attrs.act_fn) THEN Raise(st, "AttributeError")
    ELSE IF ~IsArr(st.derived_variables["Z"]) THEN Raise(st, "TypeError")
    ELSE IF ~IsArr(st.X) THEN Raise(st, "AttributeError")
    \* the reshape of dW to (out_ch, in_ch, fr, fc) with the in_ch of W
    ELSE IF ~CanDot(st.X, st.parameters["W"]) THEN Raise(st, "ValueError")
    ELSE
      LET W == st.parameters["W"]
          Z == st.derived_variables["Z"]
          dLdZ == mul(dLdY, act_grad(Z))
          dB == sum_axis0(dLdZ)
          dW == dot(T(st.X), dLdZ)
          dX == dot(dLdZ, T(W))
      IN Return([st EXCEPT !.gradients = SetItem(SetItem(@, "W", dW), "b", dB)], dX)

\* ---- Add / Multiply ----
Add_forward(st, Xin, w) ==
    LET out == add(Xin.items[1], Xin.items[2])
    IN Return([st EXCEPT !.X = Xin, !.derived_variables = SetItem(@, "sum", out)],
              act_fn(out))

Add_backward(st, dLdY) ==
    LET sum_ == st.derived_variables["sum"]
    IN IF IsNone(st.X) THEN Raise(st, "TypeError")
       ELSE IF Len(st.X.items) = 0 THEN Return(st, List(<<>>))
       ELSE IF ~IsArr(sum_) THEN Raise(st, "TypeError")
       ELSE Return(st, List([i \in 1..Len(st.X.items) |-> mul(dLdY, act_grad(sum_))]))

Multiply_forward(st, Xin, w) ==
    LET out == mul(Xin.items[1], Xin.items[2])
    IN Return([st EXCEPT !.X = Xin, !.derived_variables = SetItem(@, "product", out)],
              act_fn(out))

Multiply_backward(st, dLdY) ==
    LET prod_ == st.derived_variables["product"]
    IN IF ~IsArr(prod_) THEN Raise(st, "TypeError")
       ELSE IF IsNone(st.X) THEN Raise(st, "TypeError")
       ELSE LET g == mul(dLdY, act_grad(prod_))
                xs == st.X.items
            IN Return(st, List([j \in 1..Len(xs) |->
                                   IF j = 1 THEN mul(g, xs[2]) ELSE mul(g, xs[1])]))

\* ---- Flatten ----
Flatten_forward(st, Xin, w) ==
    Return([st EXCEPT !.attrs = [@ EXCEPT !.in_dims = Tuple(Xin.shape)]], Xin)

Flatten_backward(st, dLdy) ==
    IF IsNone(st.attrs.in_dims) THEN Raise(st, "AttributeError")
    ELSE Return(st, Arr(st.attrs.in_dims.items, dLdy.val))

(***************************************************************************)
(* RestrictedBoltzmannMachine.  Its numbers are kept in fixed point with   *)
(* one binary place: a float x of the code is the integer One * x, a       *)
(* product is rounded down to the next half.  The sigmoid of the visible   *)
(* and hidden units is rounded to the nearest half, and a draw of          *)
(* np.random.rand is 0.0 or 0.5.                                           *)
(***************************************************************************)
One == 2
MaxK == 2
Sigmoid(z) == IF z < -One THEN 0 ELSE IF z <= One THEN 1 ELSE One
sigmoid_fn(a) == Arr(a.shape, [n \in 1..Len(a.val) |-> Sigmoid(a.val[n])])
\* np.dot of two fixed-point matrices
fxdot(a, b) ==
    Matrix(Rows(a), Cols(b),
           [i \in 1..Rows(a), j \in 1..Cols(b) |->
               SumTo([k \in 1..Cols(a) |-> At(a, i, k) * At(b, k, j)], Cols(a)) \div One])
\* (np.random.rand(*p.shape) <= p).astype(float) when every draw is r
Sampled(r, p) == Arr(p.shape, [n \in 1..Len(p.val) |-> IF r <= p.val[n] THEN One ELSE 0])
RandValues == {0, 1}
RBMWeights == {[W |-> One], [W |-> -2 * One]}
\* the visible minibatches: two examples of one feature, one example of two
VisibleValues == {Arr(<<2, 1>>, <<0, One>>), Arr(<<1, 2>>, <<One, 0>>)}

\* RestrictedBoltzmannMachine._init_params; np.zeros((1, None)) is a
\* TypeError
RBM_init_params(st, n_in, w) ==
    [st EXCEPT
       !.parameters = [W |-> Fill(n_in.v, st.attrs.n_out, w.W),
                       b_in |-> zeros(1, n_in.v),
                       b_out |-> zeros(1, st.attrs.n_out)],
       !.gradients = [W |-> zeros(n_in.v, st.attrs.n_out),
                      b_in |-> zeros(1, n_in.v),
                      b_out |-> zeros(1, st.attrs.n_out)],
       !.derived_variables = [V |-> None, p_H |-> None, p_V_prime |-> None,
                              p_H_prime |-> None, positive_grad |-> None,
                              negative_grad |-> None],
       !.attrs = [@ EXCEPT !.n_in = n_in],
       !.is_initialized = TRUE]

\* one record of the trace of the Gibbs chain: the hidden states H_prime the
\* visible units of the step were computed from, and whether the step
\* resampled the hidden states it computed
GibbsStep(H_prime, resampled) == [H_prime |-> H_prime, resampled |-> resampled]
GibbsDone(pV, pH, trace) ==
    [ok |-> TRUE, exc |-> "", p_V_prime |-> pV, p_H_prime |-> pH, trace |-> trace]
GibbsRaise(exc) ==
    [ok |-> FALSE, exc |-> exc, p_V_prime |-> None, p_H_prime |-> None, trace |-> <<>>]

\* for k in range(K): the iterations k, k + 1, ... of the loop of
\* RestrictedBoltzmannMachine.forward; P holds the parameters, selfK is
\* self.K, rand the draws of the call
RECURSIVE RBM_forward_gibbs(_, _, _, _, _, _, _, _, _)
\* the end of iteration k, p_H_prime known
RBM_forward_gibbs_hidden(P, selfK, K, k, H_prime, pV, pH, rand, trace) ==
    RBM_forward_gibbs(P, selfK, K, k + 1,
        IF k # selfK - 1 THEN Sampled(rand[k + 2], pH) ELSE pH,
        pV, pH, rand,
        Append(trace, GibbsStep(H_prime, k # selfK - 1)))

\* compute p(h' | v'), p_V_prime known
RBM_forward_gibbs_visible(P, selfK, K, k, H_prime, pV, rand, trace) ==
    IF ~CanDot(pV, P["W"]) THEN GibbsRaise("ValueError")
    ELSE IF ~CanBroadcast(fxdot(pV, P["W"]), P["b_out"]) THEN GibbsRaise("ValueError")
    ELSE RBM_forward_gibbs_hidden(P, selfK, K, k, H_prime, pV,
             sigmoid_fn(add(fxdot(pV, P["W"]), P["b_out"])), rand, trace)

RBM_forward_gibbs(P, selfK, K, k, H_prime, pV, pH, rand, trace) ==
    IF k >= K
    THEN IF K <= 0 THEN GibbsRaise("UnboundLocalError") ELSE GibbsDone(pV, pH, trace)
    ELSE \* resample v' given h
         IF ~CanDot(H_prime, T(P["W"])) THEN GibbsRaise("ValueError")
         ELSE IF ~CanBroadcast(fxdot(H_prime, T(P["W"])), P["b_in"])
              THEN GibbsRaise("ValueError")
         ELSE RBM_forward_gibbs_visible(P, selfK, K, k, H_prime,
                  sigmoid_fn(add(fxdot(H_prime, T(P["W"])), P["b_in"])), rand, trace)

\* the end of RestrictedBoltzmannMachine.forward, g being the outcome of the
\* loop
RBM_forward_negative(s1, g) ==
    IF ~g.ok THEN Raise(s1, g.exc)
    ELSE IF ~CanDot(T(g.p_V_prime), g.p_H_prime) THEN Raise(s1, "ValueError")
    ELSE ReturnRead(
             [s1 EXCEPT !.derived_variables =
                  [@ EXCEPT !["p_V_prime"] = g.p_V_prime,
                            !["p_H_prime"] = g.p_H_prime,
                            !["negative_grad"] = fxdot(T(g.p_V_prime), g.p_H_prime)]],
             None, g.trace)

\* the positive statistic computed from the sampled hidden states
RBM_forward_hidden_sampled(s0, V, K, rand, p_H) ==
    IF ~CanDot(T(V), p_H) THEN Raise(s0, "ValueError")
    ELSE RBM_forward_negative(
             [s0 EXCEPT !.derived_variables =
                  [@ EXCEPT !["V"] = V, !["p_H"] = p_H,
                            !["positive_grad"] = fxdot(T(V), Sampled(rand[1], p_H))]],
             RBM_forward_gibbs(s0.parameters, s0.attrs.K, K, 0, Sampled(rand[1], p_H),
                               None, None, rand, <<>>))

\* sample hidden states, compute the positive statistic, perform CD-k
RBM_forward_hidden(s0, V, K, rand, p_H) ==
    IF ~CanDot(T(V), p_H) THEN Raise(s0, "ValueError")
    ELSE RBM_forward_negative(
             [s0 EXCEPT !.derived_variables =
                  [@ EXCEPT !["V"] = V, !["p_H"] = p_H,
                            !["positive_grad"] = fxdot(T(V), p_H)]],
             RBM_forward_gibbs(s0.parameters, s0.attrs.K, K, 0, Sampled(rand[1], p_H),
                               None, None, rand, <<>>))

\* override self.K if necessary, compute hidden unit probabilities
RBM_forward_initialized(s0, V, K, rand) ==
    IF ~CanDot(V, s0.parameters["W"]) THEN Raise(s0, "ValueError")
    ELSE IF ~CanBroadcast(fxdot(V, s0.parameters["W"]), s0.parameters["b_out"])
         THEN Raise(s0, "ValueError")
    ELSE RBM_forward_hidden(s0, V, IF IsNone(K) THEN s0.attrs.K ELSE K.v, rand,
             sigmoid_fn(add(fxdot(V, s0.parameters["W"]), s0.parameters["b_out"])))

\* RestrictedBoltzmannMachine.forward(V, K), c holding V, K and the draws of
\* np.random.rand during the call
RBM_forward(st, c, w) ==
    RBM_forward_initialized(
        IF ~st.is_initialized THEN RBM_init_params(st, PyInt(Cols(c.V)), w) ELSE st,
        c.V, c.K, c.rand)

\* RestrictedBoltzmannMachine.backward
RBM_backward(st, args) ==
    IF ~HasKey(st.derived_variables, "V") THEN Raise(st, "KeyError")
    ELSE IF ~IsArr(st.derived_variables["V"]) \/ ~IsArr(st.derived_variables["p_V_prime"])
         THEN Raise(st, "TypeError")
    ELSE IF ~CanBroadcast(st.derived_variables["V"], st.derived_variables["p_V_prime"])
         THEN Raise(st, "ValueError")
    ELSE IF ~CanBroadcast(st.derived_variables["p_H"], st.derived_variables["p_H_prime"])
         THEN Raise([st EXCEPT !.gradients =
                        SetItem(@, "b_in", sub(st.derived_variables["V"],
                                               st.derived_variables["p_V_prime"]))],
                    "ValueError")
    ELSE Return(
             [st EXCEPT !.gradients =
                  SetItem(SetItem(SetItem(@,
                      "b_in", sub(st.derived_variables["V"],
                                  st.derived_variables["p_V_prime"])),
                      "b_out", sub(st.derived_variables["p_H"],
                                   st.derived_variables["p_H_prime"])),
                      "W", sub(st.derived_variables["positive_grad"],
                               st.derived_variables["negative_grad"]))],
             None)

\* the end of RestrictedBoltzmannMachine.reconstruct, f being the outcome of
\* self.forward(X, K=n_steps) and r the draw of the final sample
RBM_reconstruct_flushed(f, fl, return_prob, r) ==
    IF ~fl.ok THEN fl
    ELSE ReturnRead(fl.st,
                    IF return_prob THEN f.st.derived_variables["p_V_prime"]
                    ELSE Sampled(r, f.st.derived_variables["p_V_prime"]),
                    f.read)

\* the reconstruction returned with the gradients and caches of the forward
\* call left in place
RBM_reconstruct_unflushed(f, return_prob, r) ==
    IF ~f.ok THEN f
    ELSE RBM_reconstruct_flushed(f, Return(f.st, None), return_prob, r)

RBM_reconstruct_forwarded(f, return_prob, r) ==
    IF ~f.ok THEN f
    ELSE \* ignore the gradients produced during this reconstruction
         RBM_reconstruct_flushed(f, LayerBase_flush_gradients(f.st), return_prob, r)

\* RestrictedBoltzmannMachine.reconstruct(X, n_steps, return_prob)
RBM_reconstruct(st, c, w) ==
    RBM_reconstruct_forwarded(RBM_forward(st, [V |-> c.V, K |-> c.K, rand |-> c.rand], w),
                              c.return_prob, c.rand[Len(c.rand)])

(***************************************************************************)
(* Dispatch on the class of the object.                                    *)
(***************************************************************************)
Cells == {"RNNCell", "LSTMCell"}
BatchNorms == {"BatchNorm1D", "BatchNorm2D"}
Convs == {"Conv1D", "Conv2D", "Deconv2D"}
RBM == "RestrictedBoltzmannMachine"
Kinds == Cells \cup BatchNorms \cup Convs
            \cup {"FullyConnected", "Pool2D", "Add", "Multiply", "Flatten", RBM}

\* self.parameters as the constructor leaves it
ConstructedParameters(k) ==
    CASE k = "RNNCell" -> [Waa |-> None, Wax |-> None, ba |-> None, bx |-> None]
      [] k = "LSTMCell" -> [Wf |-> None, Wu |-> None, Wc |-> None, Wo |-> None,
                            bf |-> None, bu |-> None, bc |-> None, bo |-> None]
      [] k \in BatchNorms -> [scaler |-> None, intercept |-> None,
                              running_var |-> None, running_mean |-> None]
      [] k \in Convs \cup {"FullyConnected"} -> [W |-> None, b |-> None]
      [] k = RBM -> [W |-> None, b_in |-> None, b_out |-> None]
      [] OTHER -> EmptyDict

\* self.derived_variables as the constructor leaves it
ConstructedDerived(k) ==
    CASE k = "Add" -> [sum |-> None]
      [] k = "Multiply" -> [product |-> None]
      [] OTHER -> EmptyDict

MomentumValues(k) == IF k \in BatchNorms THEN {0, 1} ELSE {0}
\* the K given to the constructor (the number of contrastive divergence steps)
KValues(k) == IF k = RBM THEN 1..MaxK ELSE {0}
InitWeights(k) ==
    CASE k = "RNNCell" -> RNNCellWeights
      [] k = "LSTMCell" -> LSTMCellWeights
      [] k = RBM -> RBMWeights
      [] OTHER -> LayerWeights
\* the draws of np.random.rand during one call: one for each sampling
\* statement the call can reach
RandDraws == {[i \in 1..(MaxK + 2) |-> r] : r \in RandValues}
\* once the layer is allocated the calls pass batches of its width n_in
Fits(V) == is_initialized => Cols(V) = attrs.n_in.v
\* forward(V) and forward(V, K) with the draws of the call
RBMCalls ==
    {[V |-> v, K |-> k, rand |-> r] :
        v \in VisibleValues, k \in {None} \cup {PyInt(n) : n \in 1..MaxK}, r \in RandDraws}
\* reconstruct(X, n_steps, return_prob) with the draws of the call
ReconstructCalls ==
    {[V |-> v, K |-> PyInt(n), return_prob |-> b, rand |-> r] :
        v \in VisibleValues, n \in 1..MaxK, b \in BOOLEAN, r \in RandDraws}
ForwardInputs(k) ==
    IF k \in {"Add", "Multiply"} THEN ListInputs
    ELSE IF k \in Cells THEN {Scalar(1)}
    ELSE IF k = RBM THEN {c \in RBMCalls : Fits(c.V)}
    ELSE InputValues
BackwardInputs(k) ==
    IF k \in Cells THEN {Scalar(1)} ELSE IF k = RBM THEN {None} ELSE GradValues

forward(st, x, w) ==
    CASE kind = "RNNCell" -> RNNCell_forward(st, x, w)
      [] kind = "LSTMCell" -> LSTMCell_forward(st, x, w)
      [] kind = "FullyConnected" -> FullyConnected_forward(st, x, w)
      [] kind \in BatchNorms -> BatchNorm_forward(st, x, w)
      [] kind = "Pool2D" -> Pool2D_forward(st, x, w)
      [] kind \in Convs -> Conv_forward(st, x, w)
      [] kind = "Add" -> Add_forward(st, x, w)
      [] kind = "Multiply" -> Multiply_forward(st, x, w)
      [] kind = "Flatten" -> Flatten_forward(st, x, w)
      [] kind = RBM -> RBM_forward(st, x, w)

backward(st, dLdY) ==
    CASE kind = "RNNCell" -> RNNCell_backward(st, dLdY)
      [] kind = "LSTMCell" -> LSTMCell_backward(st, dLdY)
      [] kind = "FullyConnected" -> FullyConnected_backward(st, dLdY)
      [] kind \in BatchNorms -> BatchNorm_backward(st, dLdY)
      [] kind = "Pool2D" -> Pool2D_backward(st, dLdY)
      [] kind \in Convs -> Conv_backward(st, dLdY)
      [] kind = "Add" -> Add_backward(st, dLdY)
      [] kind = "Multiply" -> Multiply_backward(st, dLdY)
      [] kind = "Flatten" -> Flatten_backward(st, dLdY)
      [] kind = RBM -> RBM_backward(st, dLdY)

flush_gradients(st) ==
    CASE kind = "RNNCell" -> RNNCell_flush_gradients(st)
      [] kind = "LSTMCell" -> LSTMCell_flush_gradients(st)
      [] OTHER -> LayerBase_flush_gradients(st)

\* update without its own check of trainable, leaning on the one made by
\* flush_gradients
update_unguarded(st) ==
    flush_gradients([st EXCEPT !.parameters = LayerBase_update_parameters(st)])

\* LayerBase.update
update(st) ==
    IF ~trainable THEN Raise(st, "AssertionError")
    ELSE [flush_gradients([st EXCEPT !.parameters = LayerBase_update_parameters(st)])
             EXCEPT !.read = LayerBase_update_calls(st)]

(***************************************************************************)
(* The state machine.                                                      *)
(***************************************************************************)
NewWindow(origin) ==
    [fwd |-> 0, bwd |-> 0, mixed |-> FALSE, origin |-> origin, ups |-> <<>>,
     updates |-> 0]

\* a newly constructed layer of one of the classes ks
Constructed(ks) ==
    /\ kind \in ks
    /\ trainable = TRUE
    /\ is_initialized = FALSE
    /\ X = None
    /\ gradients = EmptyDict
    /\ parameters = ConstructedParameters(kind)
    /\ derived_variables = ConstructedDerived(kind)
    /\ attrs \in {[n_in |-> None, n_out |-> 1, momentum |-> m, in_dims |-> None, K |-> k,
                    kernel_shape |-> <<1, 1>>, stride |-> 1, pad |-> 0,
                    act_fn |-> ActivationInitializer(Str("ReLU")),
                    gate_fn |-> IF kind = "LSTMCell"
                                THEN ActivationInitializer(Str("Sigmoid")) ELSE None,
                    optimizer |-> OptimizerInitializer(None)] :
                     m \in MomentumValues(kind), k \in KValues(kind)}
    \* RestrictedBoltzmannMachine.__init__ ends with self._init_params() while
    \* self.n_in is None: np.zeros((1, None)) raises TypeError and the object
    \* stays as the statements before the call left it
    /\ last = [op |-> "__init__", arg |-> None, ok |-> (kind # RBM),
               exc |-> IF kind = RBM THEN "TypeError" ELSE "", ret |-> None,
               read |-> EmptyDict, dirty |-> FALSE]
    /\ calls = NewWindow("new")

Init == Constructed(Kinds \ {RBM})
InitRBM == Constructed({RBM})

\* the layer holds a gradient that is not all zero
Dirty == \E k \in DOMAIN gradients : IsArr(gradients[k]) /\ ~IsZero(gradients[k])

\* one call: the fields it leaves, and the record of the call in last (its
\* name, argument, outcome, the cache positions it read, and whether the
\* layer held a nonzero gradient when it was made)
Commit(op, arg, r, c) ==
    /\ X' = r.st.X
    /\ parameters' = r.st.parameters
    /\ gradients' = r.st.gradients
    /\ derived_variables' = r.st.derived_variables
    /\ is_initialized' = r.st.is_initialized
    /\ attrs' = r.st.attrs
    /\ last' = [op |-> op, arg |-> arg, ok |-> r.ok, exc |-> r.exc, ret |-> r.ret,
                read |-> r.read, dirty |-> Dirty]
    /\ calls' = c
    /\ UNCHANGED <<kind, trainable>>

\* calls.fwd counts the forward calls of the window (on a layer without a
\* cursor it stops at 1), calls.bwd and calls.ups record the backward calls
\* of a recurrent cell that reached the cursor
CommitForward(x, r) ==
    Commit("forward", x, r,
           IF r.st.is_initialized /\ ~is_initialized
           THEN [NewWindow("init") EXCEPT !.fwd = 1, !.updates = calls.updates]
           ELSE IF kind \in Cells
           THEN [calls EXCEPT !.fwd = @ + 1, !.mixed = @ \/ calls.bwd > 0]
           ELSE [calls EXCEPT !.fwd = 1])

Forward ==
    /\ (kind \in Cells /\ HasKey(derived_variables, "n_timesteps"))
          => derived_variables["n_timesteps"] < MaxT
    /\ \E x \in ForwardInputs(kind) :
       \E w \in IF is_initialized THEN {CHOOSE v \in InitWeights(kind) : TRUE}
                ELSE InitWeights(kind) :
          CommitForward(x, forward(Self, x, w))

Backward ==
    /\ (kind \in Cells /\ trainable /\ HasKey(derived_variables, "current_step"))
          => derived_variables["current_step"] > -MaxExtra
    /\ \E dLdY \in BackwardInputs(kind) :
          Commit("backward", dLdY, backward(Self, dLdY),
                 IF kind \in Cells /\ trainable /\ HasKey(derived_variables, "current_step")
                 THEN [calls EXCEPT !.bwd = @ + 1, !.ups = Append(@, dLdY)]
                 ELSE calls)

\* a successful flush_gradients() or update() opens a new window
CommitFlush(op, r, updates) ==
    Commit(op, None, r,
           IF r.ok THEN [NewWindow("flush") EXCEPT !.updates = updates] ELSE calls)

FlushGradients ==
    /\ kind \in Kinds
    /\ CommitFlush("flush_gradients", flush_gradients(Self), calls.updates)

Update ==
    /\ trainable => calls.updates < MaxUpdates
    /\ CommitFlush("update", update(Self), calls.updates + 1)

ResetRunningStats ==
    /\ kind \in BatchNorms
    /\ Commit("reset_running_stats", None, BatchNorm_reset_running_stats(Self), calls)

\* reconstruct() runs forward and then flush_gradients()
CommitReconstruct(c, r) ==
    Commit("reconstruct", c, r,
           IF r.ok THEN [NewWindow("flush") EXCEPT !.updates = calls.updates]
           ELSE IF r.st.is_initialized /\ ~is_initialized
           THEN [NewWindow("init") EXCEPT !.fwd = 1, !.updates = calls.updates]
           ELSE [calls EXCEPT !.fwd = 1])

Reconstruct ==
    /\ kind = RBM
    /\ \E c \in {d \in ReconstructCalls : Fits(d.V)} :
       \E w \in IF is_initialized THEN {CHOOSE v \in InitWeights(kind) : TRUE}
                ELSE InitWeights(kind) :
          CommitReconstruct(c, RBM_reconstruct(Self, c, w))

Freeze ==
    /\ trainable' = FALSE
    /\ last' = [op |-> "freeze", arg |-> None, ok |-> TRUE, exc |-> "", ret |-> None,
                read |-> EmptyDict, dirty |-> Dirty]
    /\ UNCHANGED <<kind, is_initialized, X, parameters, gradients, derived_variables,
                   attrs, calls>>

Unfreeze ==
    /\ trainable' = TRUE
    /\ last' = [op |-> "unfreeze", arg |-> None, ok |-> TRUE, exc |-> "", ret |-> None,
                read |-> EmptyDict, dirty |-> Dirty]
    /\ UNCHANGED <<kind, is_initialized, X, parameters, gradients, derived_variables,
                   attrs, calls>>

Next ==
    \/ Forward
    \/ Backward
    \/ FlushGradients
    \/ Update
    \/ ResetRunningStats
    \/ Freeze
    \/ Unfreeze

Spec == Init /\ [][Next]_vars

\* the calls on a RestrictedBoltzmannMachine
NextRBM ==
    \/ Forward
    \/ Backward
    \/ FlushGradients
    \/ Update
    \/ Reconstruct
    \/ Freeze
    \/ Unfreeze

SpecRBM == InitRBM /\ [][NextRBM]_vars

(***************************************************************************)
(* A Pool2D layer in "max" mode with a 2-by-2 kernel, pooling images of    *)
(* ImageSide rows and columns whose pixels are 0 or 1.                     *)
(***************************************************************************)
MaxOnes == 2       \* pixels that are 1 in an input image
ImageSide == 3
PoolStrides == {1, 2}
PoolPads == {0, 1}
PoolKernels == {<<2, 2>>}
PoolImages ==
    {Arr(<<ImageSide, ImageSide>>, v) :
        v \in {f \in [1..(ImageSide * ImageSide) -> {0, 1}] :
                  SumTo(f, ImageSide * ImageSide) <= MaxOnes}}
\* an upstream gradient that tells the output positions apart: position n
\* (0-based, row-major) carries 2^n
Upstream(orows, ocols) ==
    Matrix(orows, ocols, [i \in 1..orows, j \in 1..ocols |-> 2 ^ ((i - 1) * ocols + (j - 1))])

InitPool ==
    /\ kind = "Pool2D"
    /\ trainable = TRUE
    /\ is_initialized = FALSE
    /\ X = None
    /\ gradients = EmptyDict
    /\ parameters = EmptyDict
    /\ derived_variables = EmptyDict
    /\ attrs \in {[n_in |-> None, n_out |-> 1, momentum |-> 0, in_dims |-> None, K |-> 0,
                    kernel_shape |-> k, stride |-> s, pad |-> p] :
                     k \in PoolKernels, s \in PoolStrides, p \in PoolPads}
    /\ last = [op |-> "__init__", arg |-> None, ok |-> TRUE, exc |-> "", ret |-> None,
               read |-> EmptyDict, dirty |-> FALSE]
    /\ calls = NewWindow("new")

PoolForward ==
    /\ kind = "Pool2D"
    /\ \E x \in PoolImages : CommitForward(x, Pool2D_forward(Self, x, None))

\* backward with an upstream gradient of the shape of the last output
PoolBackward ==
    /\ kind = "Pool2D"
    /\ \E dLdY \in IF HasKey(derived_variables, "out_rows")
                      /\ ~IsNone(derived_variables["out_rows"])
                   THEN {Upstream(derived_variables["out_rows"].v,
                                  derived_variables["out_cols"].v)}
                   ELSE {Scalar(1)} :
          Commit("backward", dLdY, Pool2D_backward(Self, dLdY), calls)

NextPool ==
    \/ PoolForward
    \/ PoolBackward
    \/ FlushGradients
    \/ Freeze
    \/ Unfreeze

SpecPool == InitPool /\ [][NextPool]_vars

(***************************************************************************)
(* The freeze contract.                                                    *)
(***************************************************************************)
\* the classes of the model that have a backward pass and parameters or
\* cached state of their own
BackwardKinds == Cells \cup BatchNorms \cup Convs \cup {"FullyConnected", "Pool2D", RBM}

\* C1: a backward() call on a frozen FullyConnected, BatchNorm1D/2D, Pool2D,
\* RNNCell, LSTMCell, Conv1D, Conv2D or Deconv2D layer fails, and leaves the
\* parameters and the gradients as they were.
C1_FrozenBackwardFails ==
    [][(last'.op = "backward" /\ ~trainable /\ kind \in BackwardKinds)
          => (~last'.ok /\ parameters' = parameters /\ gradients' = gradients)]_vars

\* C2: on a frozen layer update(), flush_gradients() and reset_running_stats()
\* fail on the trainable check and leave every field of the layer (parameters,
\* gradients, derived_variables with the counters in it, X) as it was; on a
\* layer that is not frozen, so after unfreeze(), the same calls succeed.
C2_FrozenCallsChangeNothing ==
    [][(last'.op \in {"update", "flush_gradients", "reset_running_stats"})
          => IF ~trainable
             THEN /\ ~last'.ok
                  /\ last'.exc = "AssertionError"
                  /\ UNCHANGED <<X, parameters, gradients, derived_variables, attrs,
                                 is_initialized, trainable>>
             ELSE last'.ok]_vars

\* a frozen, initialised layer holding a nonzero gradient has just refused
\* update()
C2_FrozenUpdateRefused ==
    /\ ~trainable
    /\ is_initialized
    /\ last.op = "update"
    /\ ~last.ok
    /\ last.dirty

(***************************************************************************)
(* The cursor of a recurrent cell.                                         *)
(***************************************************************************)
\* the gradient accumulators a cell carries from one backward call to the next
Accumulators == {"dLdA_accumulator", "dLdC_accumulator"}
HasCursor == kind \in Cells /\ HasKey(derived_variables, "current_step")

\* C3: a backward() call on a cell whose cursor current_step is 0 fails, and
\* leaves the parameter gradients and the accumulators as they were.
C3_BackwardAtZeroRejected ==
    [][(last'.op = "backward" /\ HasCursor /\ derived_variables["current_step"] = 0)
          => /\ ~last'.ok
             /\ gradients' = gradients
             /\ \A a \in Accumulators \cap DOMAIN derived_variables :
                    derived_variables'[a] = derived_variables[a]]_vars

\* C4: on a cell, 0 <= current_step <= n_timesteps in every reachable state.
C4_CursorInRange ==
    HasCursor => /\ 0 <= derived_variables["current_step"]
                 /\ derived_variables["current_step"] <= derived_variables["n_timesteps"]

\* the list positions (from 0) of the caches that forward call number j of a
\* window stores and that the backward pass of that timestep has to read
CachesOfForward(j) ==
    IF kind = "RNNCell"
    THEN [Z |-> j - 1, A |-> j - 1, X |-> j - 1]
    ELSE [Go |-> j - 1, Gf |-> j - 1, Gu |-> j - 1, Cc |-> j - 1, A |-> j, C |-> j,
          C_prev |-> j - 1, A_prev |-> j - 1, X |-> j - 1]

\* a window of forward calls followed by backward calls only, on a cell that
\* was initialised or flushed just before the first forward call
InOrderWindow ==
    /\ kind \in Cells
    /\ trainable
    /\ calls.origin \in {"init", "flush"}
    /\ ~calls.mixed

\* C5: after T forward calls on a freshly initialised or freshly flushed cell,
\* the k-th backward call (1 <= k <= T) succeeds, leaves current_step = T - k
\* and has read exactly the caches stored by forward call number T - k + 1.
C5_ReverseOrder ==
    (InOrderWindow /\ last.op = "backward" /\ calls.bwd \in 1..calls.fwd)
       => /\ last.ok
          /\ derived_variables["current_step"] = calls.fwd - calls.bwd
          /\ last.read = CachesOfForward(calls.fwd - calls.bwd + 1)

\* C6: backward() called when no forward() has run since construction or
\* since the last successful flush_gradients() or update() fails.
C6_BackwardNeedsForward ==
    (last.op = "backward" /\ calls.fwd = 0) => ~last.ok

\* C7: on a cell, forward() called after a backward() call of the same
\* window fails, and leaves the cached inputs, the caches and the two
\* counters as they were.
C7_ForwardAfterBackwardRejected ==
    [][(last'.op = "forward" /\ kind \in Cells /\ calls.bwd > 0)
          => (~last'.ok /\ UNCHANGED <<X, derived_variables>>)]_vars

\* the accumulators hold no carried-over contribution
AccumulatorsClear ==
    \A a \in Accumulators \cap DOMAIN derived_variables :
       IsNone(derived_variables[a]) \/ IsZero(derived_variables[a])

\* C8: at the first backward() call of a window on a cell, after the
\* parameters were initialised or after a flush_gradients() or update(), the
\* accumulators are None or all-zero tensors, and the call succeeds and
\* returns the gradient it computes from dA = dLdAt.
C8_FirstBackwardStartsClear ==
    [][(/\ last'.op = "backward"
        /\ InOrderWindow
        /\ calls.fwd > 0
        /\ calls.bwd = 0)
          => (AccumulatorsClear /\ last'.ok)]_vars

(***************************************************************************)
(* Flushing a recurrent cell, and what its gradients hold.                 *)
(***************************************************************************)
\* the per-timestep caches of a cell, by their keys in derived_variables
CacheKeys == (DOMAIN derived_variables) \ ({"n_timesteps", "current_step"} \cup Accumulators)

\* C9: flush_gradients() on a trainable cell succeeds, empties the cached
\* inputs X and every per-timestep cache, sets n_timesteps and current_step
\* to 0, sets the gradient of every parameter to an all-zero tensor of the
\* parameter's shape, and leaves the parameters as they were.
C9_FlushResetsCell ==
    [][(last'.op = "flush_gradients" /\ kind \in Cells /\ trainable)
          => /\ last'.ok
             /\ X' = List(<<>>)
             /\ \A k \in CacheKeys : derived_variables'[k] = List(<<>>)
             /\ derived_variables'["n_timesteps"] = 0
             /\ derived_variables'["current_step"] = 0
             /\ \A k \in DOMAIN parameters :
                    IsArr(parameters[k])
                       => /\ IsZero(gradients'[k])
                          /\ gradients'[k].shape = parameters[k].shape
             /\ parameters' = parameters]_vars

\* a cell that held cached timesteps and a nonzero gradient has just been
\* flushed
C9_FlushedDirtyCell ==
    /\ kind \in Cells
    /\ is_initialized
    /\ last.op = "flush_gradients"
    /\ last.ok
    /\ last.dirty
    /\ derived_variables["n_timesteps"] = 0

\* st with every gradient set to zeros
ZeroGradients(st) ==
    [st EXCEPT !.gradients = [k \in DOMAIN @ |-> zeros_like(@[k])]]

\* the cell as it stood after the forward calls of the window, before any
\* backward call: the caches and parameters of the present state, the cursor
\* at the number of forward calls, no accumulated gradient of any kind
BeforeBackward ==
    [ZeroGradients(Self) EXCEPT
        !.derived_variables =
            [k \in DOMAIN @ |-> IF k \in Accumulators THEN None
                                ELSE IF k = "current_step" THEN calls.fwd
                                ELSE @[k]]]

\* the sum, over the backward calls k, k + 1, ... of the window, of what each
\* call adds to gradients that are zero when it starts; st is the cell on
\* which call k is made and ups are the upstream gradients of the calls
RECURSIVE SumOfContributions(_, _, _, _)
SumOfContributions(st, ups, k, total) ==
    IF k > Len(ups) THEN total
    ELSE LET r == backward(ZeroGradients(st), ups[k])
         IN SumOfContributions(r.st, ups, k + 1,
                [p \in DOMAIN total |-> add(total[p], r.st.gradients[p])])

\* C10: after T forward calls and then T backward calls on a cell that was
\* initialised or flushed just before, the gradient of every parameter is
\* the sum over the T timesteps of the contribution of that timestep.
C10_GradientsAreSums ==
    (InOrderWindow /\ calls.fwd > 0 /\ calls.bwd = calls.fwd)
       => \A p \in DOMAIN parameters :
             gradients[p] = SumOfContributions(BeforeBackward, calls.ups, 1,
                                               BeforeBackward.gradients)[p]

(***************************************************************************)
(* Back-propagation through time against the unrolled network.             *)
(***************************************************************************)
\* Z of timestep t (from 1) of the network unrolled over the inputs Xs with
\* the parameters P, starting from the all-zero hidden state
RECURSIVE UnrolledZ(_, _, _)
UnrolledZ(P, Xs, t) ==
    add(add(add(dot(IF t = 1 THEN zeros(Rows(Xs[1]), Cols(P["Waa"]))
                    ELSE act_fn(UnrolledZ(P, Xs, t - 1)),
                    P["Waa"]),
                T(P["ba"])),
            dot(Xs[t], P["Wax"])),
        T(P["bx"]))

\* the gradient of the loss with respect to Z of timestep t of the unrolled
\* network: the gradient from the loss at step t (dLdA[t]) plus the one
\* carried back from step t + 1 through Waa
RECURSIVE UnrolledDZ(_, _, _, _)
UnrolledDZ(P, Xs, dLdA, t) ==
    mul(act_grad(UnrolledZ(P, Xs, t)),
        IF t = Len(Xs) THEN dLdA[t]
        ELSE add(dLdA[t], dot(UnrolledDZ(P, Xs, dLdA, t + 1), T(P["Waa"]))))

\* the gradient with respect to the input of timestep t
UnrolledDX(P, Xs, dLdA, t) == dot(UnrolledDZ(P, Xs, dLdA, t), T(P["Wax"]))

\* the upstream gradients by timestep: backward call number k of the window
\* carries the gradient of timestep T - k + 1 (timesteps below T - bwd + 1
\* have had no call yet and are never read)
UpstreamByTimestep ==
    [t \in 1..calls.fwd |->
        IF calls.fwd - t + 1 <= Len(calls.ups) THEN calls.ups[calls.fwd - t + 1]
        ELSE None]

\* C11: on an RNNCell driven through T forward calls and then backward calls
\* in reverse order, the k-th backward call returns the input gradient that
\* the unrolled T-step network gives for timestep T - k + 1.
C11_InputGradientsMatchUnrolled ==
    (InOrderWindow /\ kind = "RNNCell" /\ last.op = "backward"
        /\ calls.fwd > 0 /\ calls.bwd \in 1..calls.fwd)
       => /\ last.ok
          /\ last.ret = UnrolledDX(parameters, X.items, UpstreamByTimestep,
                                   calls.fwd - calls.bwd + 1)

(***************************************************************************)
(* The gradients of a layer between two flushes.                           *)
(***************************************************************************)
\* the parameter gradients of one pass alone: what backward(dLdY) leaves in
\* gradients when every gradient is zero at the call
PassGradients(dLdY) == backward(ZeroGradients(Self), dLdY).st.gradients

\* C12: parameter gradients accumulate across backward calls until flushed:
\* a successful backward call of a pass (a forward call was made since the
\* last flush_gradients() or update()) leaves in every parameter gradient
\* the sum of the value it held and the gradient of this pass, so that two
\* passes without a flush between them leave the sum of their gradients.
C12_GradientsAccumulate ==
    [][(last'.op = "backward" /\ last'.ok /\ trainable /\ is_initialized
          /\ calls.fwd > 0)
          => \A p \in (DOMAIN parameters) \cap (DOMAIN gradients) :
                gradients'[p] = add(gradients[p], PassGradients(last'.arg)[p])]_vars

\* C13: once the parameters of a layer are initialised, every key of
\* gradients is a key of parameters, in every reachable state.
C13_GradientKeysAreParameterKeys ==
    is_initialized => (DOMAIN gradients) \subseteq (DOMAIN parameters)

(***************************************************************************)
(* update()                                                                *)
(***************************************************************************)
\* the keys update() has to hand to the optimizer
UpdatedKeys == (DOMAIN gradients) \cap (DOMAIN parameters)

\* C14: update() on a trainable layer calls the optimizer exactly once for
\* each key of both gradients and parameters, with the current value, the
\* accumulated gradient and the key, and for no other key; it stores what
\* the optimizer returns as that parameter, leaves every other parameter
\* unchanged, and returns with every gradient zero.
C14_UpdateAppliesOptimizer ==
    [][(last'.op = "update" /\ trainable)
          => /\ last'.ok
             /\ \A i \in DOMAIN last'.read : last'.read[i].key \in UpdatedKeys
             /\ \A k \in UpdatedKeys :
                   /\ Cardinality({i \in DOMAIN last'.read : last'.read[i].key = k}) = 1
                   /\ \E i \in DOMAIN last'.read :
                         last'.read[i] = [key |-> k, value |-> parameters[k],
                                          grad |-> gradients[k]]
                   /\ parameters'[k] = Optimizer(parameters[k], gradients[k], k)
             /\ \A k \in (DOMAIN parameters) \ UpdatedKeys : parameters'[k] = parameters[k]
             /\ DOMAIN parameters' = DOMAIN parameters
             /\ \A k \in DOMAIN gradients' : IsZero(gradients'[k])]_vars

\* a batch-normalisation layer holding a nonzero gradient has just been
\* updated: the optimizer was called for scaler and intercept and the
\* running statistics, which have no gradient, were left alone
C14_BatchNormUpdated ==
    /\ kind \in BatchNorms
    /\ last.op = "update"
    /\ last.ok
    /\ last.dirty
    /\ Len(last.read) = 2
    /\ ~IsZero(parameters["running_mean"])

(***************************************************************************)
(* flush_gradients() on a trainable layer that is not a recurrent cell.    *)
(***************************************************************************)
\* the gradient stored under key k is an all-zero array of the shape of the
\* parameter stored under k
ZeroLikeParameter(P, G, k) ==
    /\ IsZero(G[k])
    /\ k \in DOMAIN P
    /\ IsArr(P[k])
    /\ G[k].shape = P[k].shape

\* C15: on a trainable non-recurrent layer flush_gradients(), called in any
\* reachable state, succeeds and leaves every entry of gradients an all-zero
\* array whose shape is the shape of the parameter with the same key, every
\* derived variable None, the cached input empty and the parameters as they
\* were.
C15_FlushZeroesLikeParameters ==
    [][(last'.op = "flush_gradients" /\ trainable /\ kind \notin Cells)
          => /\ last'.ok
             /\ \A k \in DOMAIN gradients' : ZeroLikeParameter(parameters', gradients', k)
             /\ \A d \in DOMAIN derived_variables' : IsNone(derived_variables'[d])
             /\ X' = List(<<>>)
             /\ parameters' = parameters]_vars

(***************************************************************************)
(* Lazy allocation of the parameters.                                      *)
(***************************************************************************)
LearnedKinds == {"FullyConnected", RBM} \cup BatchNorms \cup Convs \cup Cells
Unallocated == ~is_initialized /\ \A p \in DOMAIN parameters : IsNone(parameters[p])
\* the input of the forward call arg, and the input dimension read from it
ForwardInput(arg) == IF kind = RBM THEN arg.V ELSE arg
InputWidth(arg) == Cols(ForwardInput(arg))
ParameterShapes(P) == [p \in DOMAIN P |-> IF IsArr(P[p]) THEN P[p].shape ELSE <<>>]

\* C16: a layer with learned parameters is constructed with its parameters
\* unallocated, the first forward call allocates them with n_in (in_ch)
\* read from the shape of its input, and no later forward call allocates
\* them again.
C16_LazyAllocation ==
    /\ [](kind \in LearnedKinds /\ last.op = "__init__" => last.ok /\ Unallocated)
    /\ [][(kind \in LearnedKinds /\ last'.op = "forward")
            => /\ (~is_initialized /\ last'.ok) => is_initialized'
               /\ (~is_initialized /\ is_initialized')
                     => /\ attrs'.n_in = PyInt(InputWidth(last'.arg))
                        /\ \A p \in DOMAIN parameters' : IsArr(parameters'[p])
                        /\ kind \in {"FullyConnected", RBM}
                              => Rows(parameters'["W"]) = InputWidth(last'.arg)
               /\ is_initialized
                     => /\ is_initialized'
                        /\ attrs'.n_in = attrs.n_in
                        /\ ParameterShapes(parameters') = ParameterShapes(parameters)]_vars

(***************************************************************************)
(* The Gibbs chain of RestrictedBoltzmannMachine.forward.                  *)
(***************************************************************************)
\* the number of Gibbs steps of the call c: its argument K (n_steps for
\* reconstruct) when given, self.K otherwise
GibbsSteps(c) == IF IsNone(c.K) THEN attrs.K ELSE c.K.v
IsBinary(a) == IsArr(a) /\ \A n \in 1..Len(a.val) : a.val[n] \in {0, One}

\* C17: a forward(V, K) or reconstruct call that returns has run k Gibbs
\* steps, k being the K argument when given and self.K otherwise; the hidden
\* states were resampled after every step but the last and kept as
\* probabilities on the last, so the visible units of every step after the
\* first were computed from binary hidden states.
C17_ResampledExceptLast ==
    (kind = RBM /\ last.op \in {"forward", "reconstruct"} /\ last.ok)
       => /\ Len(last.read) = GibbsSteps(last.arg)
          /\ \A i \in 1..Len(last.read) :
                /\ last.read[i].resampled = (i # Len(last.read))
                /\ i > 1 => IsBinary(last.read[i].H_prime)

(***************************************************************************)
(* The contrastive-divergence gradients.                                   *)
(***************************************************************************)
\* the probabilities of a forward call recomputed from its input V, the
\* parameters P and the hidden states H the last Gibbs step started from
HiddenProbabilities(P, V) == sigmoid_fn(add(fxdot(V, P["W"]), P["b_out"]))
VisibleProbabilities(P, H) == sigmoid_fn(add(fxdot(H, T(P["W"])), P["b_in"]))
LastHidden(trace) == trace[Len(trace)].H_prime
FinalVisible(P, trace) == VisibleProbabilities(P, LastHidden(trace))
FinalHidden(P, trace) == HiddenProbabilities(P, FinalVisible(P, trace))
ContrastiveDivergence(P, V, trace) ==
    [W |-> sub(fxdot(T(V), HiddenProbabilities(P, V)),
               fxdot(T(FinalVisible(P, trace)), FinalHidden(P, trace))),
     b_in |-> sub(V, FinalVisible(P, trace)),
     b_out |-> sub(HiddenProbabilities(P, V), FinalHidden(P, trace))]

\* C18: backward() called after a forward(V) call that returned stores the
\* gradients W = V.T p_H - p_V'.T p_H', b_in = V - p_V' and
\* b_out = p_H - p_H', where p_H is the probability of the hidden units
\* given V and p_V', p_H' are the probabilities of the last Gibbs step of
\* that forward call, never sampled states.
C18_GradientsFromProbabilities ==
    [][(kind = RBM /\ last.op = "forward" /\ last.ok /\ last'.op = "backward")
          => /\ last'.ok
             /\ gradients' = ContrastiveDivergence(parameters, last.arg.V, last.read)]_vars

\* backward() has stored non-zero gradients computed by a chain of MaxK steps
C18_BackwardAfterForward ==
    /\ kind = RBM
    /\ last.op = "backward"
    /\ last.ok
    /\ attrs.K = MaxK
    /\ ~IsZero(gradients["W"])
    /\ ~IsZero(gradients["b_in"])

(***************************************************************************)
(* RestrictedBoltzmannMachine.reconstruct                                  *)
(***************************************************************************)
\* what reconstruct returns for the call c when the chain left the trace:
\* the visible probabilities of the last step, or a sample of them
Reconstruction(P, c, trace) ==
    IF c.return_prob THEN FinalVisible(P, trace)
    ELSE Sampled(c.rand[Len(c.rand)], FinalVisible(P, trace))
\* the chain ran n_steps steps, the call returned the reconstruction of the
\* last step and left every gradient zero and every derived variable None
ReconstructReturned ==
    /\ Len(last'.read) = last'.arg.K.v
    /\ last'.ret = Reconstruction(parameters', last'.arg, last'.read)
    /\ \A g \in DOMAIN gradients' : IsZero(gradients'[g])
    /\ \A d \in DOMAIN derived_variables' : IsNone(derived_variables'[d])

MaxPosition(X_pad, k, s, ocols, n) ==
    <<(n \div ocols) * s + ((argfirst(WindowOf(X_pad, k, s, ocols, n)) - 1) \div k[2]) + 1,
      (n % ocols) * s + ((argfirst(WindowOf(X_pad, k, s, ocols, n)) - 1) % k[2]) + 1>>
\* the gradient of the padded input when every window gives its upstream
\* gradient to the position of its maximum and 0 to its other positions
RoutedToMaxima(X_pad, dLdY, k, s) ==
    Matrix(Rows(X_pad), Cols(X_pad),
           [a \in 1..Rows(X_pad), b \in 1..Cols(X_pad) |->
               SumTo([m \in 1..(Rows(dLdY) * Cols(dLdY)) |->
                         IF MaxPosition(X_pad, k, s, Cols(dLdY), m - 1) = <<a, b>>
                         THEN dLdY.val[m] ELSE 0],
                     Rows(dLdY) * Cols(dLdY))])
\* backward was called on a trainable layer after forward, with an upstream
\* gradient of the shape of the output
PooledBackward ==
    /\ kind = "Pool2D"
    /\ last.op = "backward"
    /\ trainable
    /\ IsArr(X)
    /\ HasKey(derived_variables, "out_rows")
    /\ ~IsNone(derived_variables["out_rows"])
    /\ last.arg.shape = <<derived_variables["out_rows"].v, derived_variables["out_cols"].v>>

\* C20: in max mode, Pool2D.backward adds the upstream gradient of every
\* output window, whatever the stride and the padding, to exactly one
\* position of the padded input, the first position in row-major order that
\* holds the maximum of the window forward pooled over, and adds 0 from that
\* window to every other position.
C20_UpstreamGoesToFirstMaximum ==
    PooledBackward
       => /\ last.ok
          /\ last.read = RoutedToMaxima(pad2D(X, attrs.pad), last.arg,
                                        attrs.kernel_shape, attrs.stride)

(***************************************************************************)
(* The hidden state a forward call of a recurrent cell starts from.        *)
(***************************************************************************)
\* no forward call was made since the cell was initialised or last flushed
FirstForward == calls.fwd = 0
\* the hidden (cell) states of the call with input Xt: one zero state of the
\* batch size of Xt on the first call, the cached states otherwise
StatesBefore(key, Xt) ==
    IF FirstForward THEN <<zeros(Rows(Xt), attrs.n_out)>>
    ELSE derived_variables[key].items
\* Zt of RNNCell.forward computed from the hidden state A_prev
RNNPreActivation(P, A_prev, Xt) ==
    add(add(add(dot(A_prev, P["Waa"]), T(P["ba"])), dot(Xt, P["Wax"])), T(P["bx"]))
\* the cell state of LSTMCell.forward computed from A_prev and C_prev
LSTMCellState(P, A_prev, C_prev, Xt) ==
    add(mul(gate_fn(add(dot(hstack(A_prev, Xt), P["Wf"]), P["bf"])), C_prev),
        mul(gate_fn(add(dot(hstack(A_prev, Xt), P["Wu"]), P["bu"])),
            act_fn(add(dot(hstack(A_prev, Xt), P["Wc"]), P["bc"]))))
LSTMHiddenState(P, A_prev, C_prev, Xt) ==
    mul(gate_fn(add(dot(hstack(A_prev, Xt), P["Wo"]), P["bo"])),
        act_fn(LSTMCellState(P, A_prev, C_prev, Xt)))
\* what the forward call with input Xt appends, given the states it starts from
StartsFrom(Xt) ==
    IF kind = "RNNCell"
    THEN /\ derived_variables'["A"].items =
              Append(StatesBefore("A", Xt),
                     act_fn(RNNPreActivation(parameters', GetItem(StatesBefore("A", Xt), -1), Xt)))
         /\ last'.ret = GetItem(derived_variables'["A"].items, -1)
    ELSE /\ derived_variables'["A"].items =
              Append(StatesBefore("A", Xt),
                     LSTMHiddenState(parameters', GetItem(StatesBefore("A", Xt), -1),
                                     GetItem(StatesBefore("C", Xt), -1), Xt))
         /\ derived_variables'["C"].items =
              Append(StatesBefore("C", Xt),
                     LSTMCellState(parameters', GetItem(StatesBefore("A", Xt), -1),
                                   GetItem(StatesBefore("C", Xt), -1), Xt))
         /\ last'.ret = Tuple(<<GetItem(derived_variables'["A"].items, -1),
                                GetItem(derived_variables'["C"].items, -1)>>)

\* C24: the first forward call of a recurrent cell after its initialisation
\* and after every flush starts from an all-zero hidden state (and cell
\* state) of the batch size of its input; every other forward call starts
\* from the state the preceding forward call produced and returned, which
\* no call in between changes.
C24_ForwardStartsFromPrecedingState ==
    [][(kind \in Cells)
          => /\ last'.op = "forward" => (last'.ok /\ StartsFrom(last'.arg))
             /\ (last'.op \notin {"forward", "flush_gradients", "update"} /\ is_initialized)
                   => /\ derived_variables'["A"] = derived_variables["A"]
                      /\ kind = "LSTMCell"
                            => (derived_variables'["C"] = derived_variables["C"])]_vars

\* a flushed cell has run two forward calls, the second from a non-zero state
C24_SecondForwardAfterFlush ==
    /\ kind \in Cells
    /\ last.op = "forward"
    /\ last.ok
    /\ calls.origin = "flush"
    /\ calls.fwd = 2
    /\ ~IsZero(GetItem(derived_variables["A"].items, -2))

\* the input of one gate at the cached timestep: Zt times the gate's weight
\* plus the gate's bias
GateInput(c, W, b) == add(dot(c.Zt, parameters[W]), parameters[b])
\* dA and dC of LSTMCell.backward for the upstream gradient dLdAt
UpstreamA(c, dLdAt) == add(dLdAt, c.dA_acc)
UpstreamC(c, dLdAt) ==
    add(c.dC_acc, mul(mul(UpstreamA(c, dLdAt), c.Got), act_grad(c.Ct)))
\* the bias gradients a backward call adds when every local derivative is
\* taken at the gate's own forward pre-activation
OwnBiasGradients(c, dLdAt) ==
    [bo |-> sum_axis0(mul(mul(UpstreamA(c, dLdAt), act_fn(c.Ct)),
                          gate_grad(GateInput(c, "Wo", "bo")))),
     bc |-> sum_axis0(mul(mul(UpstreamC(c, dLdAt), c.Gut),
                          act_grad(GateInput(c, "Wc", "bc")))),
     bu |-> sum_axis0(mul(mul(UpstreamC(c, dLdAt), c.Cct),
                          gate_grad(GateInput(c, "Wu", "bu")))),
     bf |-> sum_axis0(mul(mul(UpstreamC(c, dLdAt), c.C_prev),
                          gate_grad(GateInput(c, "Wf", "bf"))))]
AddsOwnBiasGradients(c, dLdAt) ==
    \A b \in {"bo", "bc", "bu", "bf"} :
        gradients'[b] = add(gradients[b], OwnBiasGradients(c, dLdAt)[b])

\* C26: a backward call of an LSTMCell that returns has taken the local
\* derivative of the forget, update and output gates and of the candidate
\* at the pre-activation the forward call used, Zt times the gate's own
\* weight plus the gate's own bias, so each bias gradient grows by the sum
\* over the batch of the gradient at that pre-activation.
C26_GateDerivativesAtOwnPreActivation ==
    [][(kind = "LSTMCell" /\ last'.op = "backward" /\ last'.ok)
          => AddsOwnBiasGradients(
                 LSTMCell_backward_caches(derived_variables, X.items,
                                          derived_variables["current_step"] - 1),
                 last'.arg)]_vars

\* the running statistic a forward call with input Xin starts from: the stored
\* one, or the one lazy initialisation allocates (mean 0, variance 1)
StoredStatistic(key, Xin) ==
    IF is_initialized THEN parameters[key]
    ELSE IF key = "running_mean" THEN zeros1(PyInt(Cols(Xin))) ELSE ones1(PyInt(Cols(Xin)))
\* momentum * old + (1 - momentum) * batch statistic
Smoothed(old, batch) == add(scale(attrs.momentum, old), scale(1 - attrs.momentum, batch))
NormalisedWith(Xin, mean, var) ==
    /\ last'.ret.centred = sub(Xin, mean)
    /\ last'.ret.var = var
    /\ last'.ret.scaler = parameters'["scaler"]
    /\ last'.ret.intercept = parameters'["intercept"]

AppendedCaches ==
    IF kind = "RNNCell" THEN {"A", "Z"} ELSE {"A", "C", "Gf", "Gu", "Go", "Cc"}
\* the list new holds the entries of old, in order, and n more
Extends(new, old, n) ==
    /\ Len(new) = Len(old) + n
    /\ SubSeq(new, 1, Len(old)) = old
\* a forward call on the initialised cell has appended its input and one entry
\* to each cache (and the zero state before it when the lists were empty) and
\* advanced both counters
AppendsTimestep ==
    /\ Extends(X'.items, X.items, 1)
    /\ \A k \in AppendedCaches :
          Extends(derived_variables'[k].items, derived_variables[k].items,
                  IF k \in {"A", "C"} /\ Len(derived_variables[k].items) = 0 THEN 2 ELSE 1)
    /\ derived_variables'["n_timesteps"] = derived_variables["n_timesteps"] + 1
    /\ derived_variables'["current_step"] = derived_variables["current_step"] + 1
\* a call has been rejected and has left the layer as it was
Rejected ==
    /\ ~last'.ok
    /\ last'.exc = "AssertionError"
    /\ UNCHANGED <<X, parameters, gradients, derived_variables, is_initialized, attrs>>

\* C29: on a frozen recurrent cell a forward call succeeds, appends the
\* timestep's caches to the ones already held and advances n_timesteps and
\* current_step; flush_gradients, update and backward are rejected and change
\* nothing; so no call on a frozen cell removes a cached hidden state, and
\* the next forward call starts from the last one.
C29_FrozenCellKeepsCaches ==
    [][(kind \in Cells /\ ~trainable /\ trainable' = trainable)
          => /\ last'.op = "forward"
                   => /\ last'.ok
                      /\ is_initialized => (AppendsTimestep /\ StartsFrom(last'.arg))
                      /\ ~is_initialized => derived_variables'["n_timesteps"] = 1
             /\ last'.op \in {"flush_gradients", "update", "backward"} => Rejected
             /\ is_initialized
                   => \A k \in AppendedCaches :
                         Len(derived_variables'[k].items) >= Len(derived_variables[k].items)]_vars

\* a frozen cell has run the forward call of a second timestep, from the
\* non-zero hidden state of the first
C29_FrozenSecondForward ==
    /\ kind \in Cells
    /\ ~trainable
    /\ last.op = "forward"
    /\ last.ok
    /\ derived_variables["n_timesteps"] = 2
    /\ Len(derived_variables["A"].items) = 3
    /\ ~IsZero(GetItem(derived_variables["A"].items, -2))

\* C30: in every reachable state of an initialised RNNCell the gradients of
\* the two biases are equal, gradients['ba'] = gradients['bx'].
C30_BiasGradientsEqual ==
    (kind = "RNNCell" /\ is_initialized) => gradients["ba"] = gradients["bx"]

\* backward calls of an RNNCell have left a non-zero gradient of the bias ba
C30_BiasGradientAccumulated ==
    /\ kind = "RNNCell"
    /\ is_initialized
    /\ last.op = "backward"
    /\ last.ok
    /\ ~IsZero(gradients["ba"])

(***************************************************************************)
(* set_params: a layer restored from a summary mapping.                    *)
(***************************************************************************)
SetKinds == {"FullyConnected", "LSTMCell"} \cup Convs
\* the keys of self.hyperparameters
HyperparameterKeys(k) ==
    CASE k = "FullyConnected" -> {"layer", "init", "n_in", "n_out", "act_fn", "optimizer"}
      [] k = "LSTMCell" ->
            {"layer", "init", "n_in", "n_out", "act_fn", "gate_fn", "optimizer"}
      [] k = "Conv1D" -> {"layer", "pad", "init", "in_ch", "out_ch", "stride", "dilation",
                          "act_fn", "kernel_width", "optimizer"}
      [] k = "Conv2D" -> {"layer", "pad", "init", "in_ch", "out_ch", "stride", "dilation",
                          "act_fn", "kernel_shape", "optimizer"}
      [] k = "Deconv2D" -> {"layer", "pad", "init", "in_ch", "out_ch", "stride",
                            "act_fn", "kernel_shape", "optimizer"}
\* the field of attrs that holds the attribute of the layer named k (the
\* kernel width of a Conv1D is kept as the shape (1, width))
AttrOf(k) ==
    CASE k = "in_ch" -> "n_in"
      [] k = "out_ch" -> "n_out"
      [] k = "kernel_width" -> "kernel_shape"
      [] OTHER -> k
Merge(f, g) == [k \in (DOMAIN f) \cup (DOMAIN g) |-> IF k \in DOMAIN g THEN g[k] ELSE f[k]]
Without(f, k) == [x \in (DOMAIN f) \ {k} |-> f[x]]
\* sd.update(sd[k]); del sd[k]
Collapsed(sd, k) == IF k \in DOMAIN sd THEN Without(Merge(sd, sd[k]), k) ELSE sd
\* the nested dicts `parameters` and `hyperparameters` merged into one dict
Flattened(d) == Collapsed(Collapsed(d, "parameters"), "hyperparameters")
\* the hyperparameters among the keys of sd
Rehydrated(sd) == (DOMAIN sd) \cap HyperparameterKeys(kind)

\* the loop of set_params over the items of the flattened dict sd: a key of
\* self.parameters gets the value; for a key of self.hyperparameters, act_fn
\* is first made an activation object, the optimizer is rebuilt, and every
\* key but wrappers and optimizer is then assigned the value with setattr
LayerBase_set_params_items(st, sd) ==
    Return([st EXCEPT
              !.parameters = [k \in DOMAIN @ |-> IF k \in DOMAIN sd THEN sd[k] ELSE @[k]],
              !.attrs = [a \in DOMAIN @ |->
                           IF a = "optimizer" /\ "optimizer" \in Rehydrated(sd)
                           THEN OptimizerInitializer(sd["optimizer"])
                           ELSE IF a # "optimizer" /\ \E k \in Rehydrated(sd) : AttrOf(k) = a
                           THEN sd[CHOOSE k \in Rehydrated(sd) : AttrOf(k) = a]
                           ELSE @[a]]],
           Str("layer"))

\* LayerBase.set_params
LayerBase_set_params(st, d) == LayerBase_set_params_items(st, Flattened(d))

\* the optimizer entry of a summary
OptimizerEntry == [cache |-> EmptyDict, hyperparameters |-> Str("SGD")]
\* summary() of a FullyConnected layer of the same construction that has run
\* forward on a batch of width 1 and has been trained
FullyConnectedSummary ==
    [parameters |-> [W |-> Fill(1, 1, 3), b |-> Fill(1, 1, 1)],
     hyperparameters |-> [layer |-> Str("FullyConnected"), init |-> Str("glorot_uniform"),
                          n_in |-> PyInt(1), n_out |-> 1, act_fn |-> Str("ReLU"),
                          optimizer |-> OptimizerEntry]]
\* summary() of a convolution layer of the same construction that has run
\* forward on a volume of two channels
ConvSummary(k) ==
    [parameters |-> [W |-> Fill(2, 1, 1), b |-> zeros(1, 1)],
     hyperparameters |->
        [x \in HyperparameterKeys(k) |->
            CASE x = "layer" -> Str(k)
              [] x = "init" -> Str("glorot_uniform")
              [] x = "in_ch" -> PyInt(2)
              [] x = "out_ch" -> 1
              [] x \in {"kernel_shape", "kernel_width"} -> <<1, 1>>
              [] x = "stride" -> 1
              [] x \in {"pad", "dilation"} -> 0
              [] x = "act_fn" -> Str("ReLU")
              [] x = "optimizer" -> OptimizerEntry]]
\* the parameters of an LSTMCell with one input and one output whose output
\* gate has the bias 1
LSTMCellParameters ==
    [Wf |-> Fill(2, 1, 1), Wu |-> Fill(2, 1, 1), Wc |-> Fill(2, 1, 1), Wo |-> Fill(2, 1, 1),
     bf |-> zeros(1, 1), bu |-> zeros(1, 1), bc |-> zeros(1, 1), bo |-> Fill(1, 1, 1)]
\* the mappings given to set_params: a summary as summary() returns it, the
\* same summary already flattened, and a mapping that carries parameters only
Summaries(k) ==
    CASE k = "FullyConnected" ->
            {FullyConnectedSummary, Flattened(FullyConnectedSummary),
             [parameters |-> FullyConnectedSummary.parameters]}
      [] k \in Convs ->
            {ConvSummary(k), [parameters |-> [W |-> Fill(1, 1, 3), b |-> Fill(1, 1, 1)]]}
      [] k = "LSTMCell" -> {[parameters |-> LSTMCellParameters]}

SetParams ==
    /\ kind \in SetKinds
    /\ \E d \in Summaries(kind) :
          Commit("set_params", d, LayerBase_set_params(Self, d), calls)

InitSet == Constructed(SetKinds)

NextSet ==
    \/ Forward
    \/ Backward
    \/ FlushGradients
    \/ Update
    \/ Freeze
    \/ Unfreeze
    \/ SetParams

SpecSet == InitSet /\ [][NextSet]_vars

\* the flattened mapping of the set_params call just made
Installed == Flattened(last'.arg)

\* C22: after set_params(d) the parameter tensors of the layer are those of
\* d, act_fn and gate_fn are activation objects of the kinds d names, and the
\* optimizer is the one built from d's optimizer entry; a forward call that
\* follows, on a batch of the width of the installed weights, runs.
C22_SetParamsRehydrates ==
    [][/\ last'.op = "set_params"
             => /\ last'.ok
                /\ \A k \in (DOMAIN parameters) \cap (DOMAIN Installed) :
                      parameters'[k] = Installed[k]
                /\ \A k \in {"act_fn", "gate_fn"} \cap Rehydrated(Installed) :
                      attrs'[k] = ActivationInitializer(Installed[k])
                /\ "optimizer" \in Rehydrated(Installed)
                      => attrs'.optimizer = OptimizerInitializer(Installed["optimizer"])
       /\ (last.op = "set_params" /\ last'.op = "forward" /\ is_initialized
             /\ kind \in Convs \cup {"FullyConnected"}
             /\ CanDot(last'.arg, parameters["W"]))
             => last'.ok]_vars

\* C25: on a Conv1D, Conv2D or Deconv2D layer no call changes the kernel
\* size, and once the layer has run forward no call changes in_ch or the
\* shapes of W and b.
C25_ConvShapesFixed ==
    [][(kind \in Convs)
          => /\ attrs'.kernel_shape = attrs.kernel_shape
             /\ is_initialized
                   => /\ attrs'.n_in = attrs.n_in
                      /\ parameters'["W"].shape = parameters["W"].shape
                      /\ parameters'["b"].shape = parameters["b"].shape]_vars

\* C28: the first forward call after set_params on a layer that has not run
\* forward keeps the installed parameters: it does not run the lazy
\* initialisation over them.
C28_ForwardKeepsInstalledParameters ==
    [][(last.op = "set_params" /\ last.ok /\ ~is_initialized /\ last'.op = "forward")
          => \A k \in (DOMAIN parameters) \cap (DOMAIN Flattened(last.arg)) :
                parameters'[k] = parameters[k]]_vars

(***************************************************************************)
(* The sequence layers RNN and LSTM, which wrap one cell.                  *)
(***************************************************************************)
SeqKinds == {"RNN", "LSTM"}
MaxSteps == 3
\* an input or upstream gradient of one example, one feature and n_t timesteps
Sequences3D ==
    UNION {{Arr(<<1, 1, n>>, v) : v \in [1..n -> {0, 1, 2}]} : n \in 1..MaxSteps}

\* RNN.__init__ and LSTM.__init__ start with LayerBase.__init__, which assigns
\* X, trainable and optimizer and then self.gradients = {}.  The classes
\* define gradients, parameters and derived_variables as properties without a
\* setter, so this assignment raises AttributeError: the statements after it
\* (n_in, n_out, act_fn, is_initialized of the wrapper) are not reached, no
\* cell is built, and the three dictionaries are not attributes of the object
\* (they are kept empty here).  attrs.assigned names the attributes the
\* object has.
InitSeq ==
    /\ kind \in SeqKinds
    /\ trainable = TRUE
    /\ is_initialized = FALSE
    /\ X = None
    /\ gradients = EmptyDict
    /\ parameters = EmptyDict
    /\ derived_variables = EmptyDict
    /\ attrs = [optimizer |-> OptimizerInitializer(None),
                assigned |-> {"X", "trainable", "optimizer"}]
    /\ last = [op |-> "__init__", arg |-> None, ok |-> FALSE, exc |-> "AttributeError",
               ret |-> None, read |-> EmptyDict, dirty |-> FALSE]
    /\ calls = NewWindow("new")

\* the read of an attribute of the object by a method of the wrapper, and the
\* call that follows when the attribute exists
ReadAttribute(st, name, r) ==
    IF name \in st.attrs.assigned THEN r ELSE Raise(st, "AttributeError")

\* forward tests self.is_initialized first; backward, freeze, unfreeze,
\* flush_gradients and update read self.cell first
Seq_forward(st, Xs) == ReadAttribute(st, "is_initialized", Return(st, Xs))
Seq_cell_call(st) == ReadAttribute(st, "cell", Return(st, None))

SeqForward ==
    /\ kind \in SeqKinds
    /\ \E Xs \in Sequences3D : Commit("forward", Xs, Seq_forward(Self, Xs), calls)
SeqBackward ==
    /\ kind \in SeqKinds
    /\ \E dLdA \in Sequences3D : Commit("backward", dLdA, Seq_cell_call(Self), calls)
SeqFreeze ==
    /\ kind \in SeqKinds
    /\ Commit("freeze", None, Seq_cell_call(Self), calls)
SeqUnfreeze ==
    /\ kind \in SeqKinds
    /\ Commit("unfreeze", None, Seq_cell_call(Self), calls)
SeqFlushGradients ==
    /\ kind \in SeqKinds
    /\ Commit("flush_gradients", None, Seq_cell_call(Self), calls)
SeqUpdate ==
    /\ kind \in SeqKinds
    /\ Commit("update", None, Seq_cell_call(Self), calls)

NextSeq ==
    \/ SeqForward
    \/ SeqBackward
    \/ SeqFreeze
    \/ SeqUnfreeze
    \/ SeqFlushGradients
    \/ SeqUpdate

SpecSeq == InitSeq /\ [][NextSeq]_vars

\* C23: an RNN or LSTM sequence layer can be constructed, and its forward
\* and backward calls on a sequence of n_t timesteps run (driving the cell
\* once per timestep, forward in ascending and backward in descending order)
\* and return one output or input gradient per timestep.
C23_SequenceLayerRuns ==
    (kind \in SeqKinds /\ last.op \in {"__init__", "forward", "backward"})
       => /\ last.ok
          /\ last.op # "__init__" => (IsArr(last.ret) /\ last.ret.shape[3] = last.arg.shape[3])

(***************************************************************************)
(* Conv2D on volumes with spatial extent.  A volume has one example and    *)
(* one channel and is stored as its in_rows x in_cols image; W is stored   *)
(* as its fr x fc kernel (in_ch = out_ch = 1) and b as its one entry.      *)
(***************************************************************************)
ConvKernels == {<<1, 1>>, <<2, 2>>, <<1, 2>>}
ConvStrides == {1, 2}
ConvPads == {0, 1}
ConvDilations == {0, 1}
\* the entries init_weights may give a kernel, row by row
KernelWeights == {<<1, 2, 3, 4>>, <<2, -1, -1, 1>>}
ConvImages ==
    {Arr(<<3, 3>>, <<1, 2, 3, 4, 5, 6, 7, 8, 9>>),
     Arr(<<3, 4>>, <<1, 0, -2, 3, 0, 4, 1, -1, 2, 0, 0, 5>>)}
\* an upstream gradient that tells the output positions apart
ConvUpstream(orows, ocols) ==
    Matrix(orows, ocols, [i \in 1..orows, j \in 1..ocols |-> (i - 1) * ocols + j])

\* a.reshape(r, c)
Reshape(a, r, c) == Arr(<<r, c>>, a.val)
\* the array a with its entries evaluated
Evaluated(a) == Arr(a.shape, a.val \o <<>>)
\* the kernel, stride, padding and dilation of the layer with the output
\* size orows x ocols
Geometry(st, orows, ocols) ==
    [fr |-> st.attrs.kernel_shape[1], fc |-> st.attrs.kernel_shape[2],
     s |-> st.attrs.stride, p |-> st.attrs.pad, d |-> st.attrs.dilation,
     orows |-> orows, ocols |-> ocols]
Taps(g) == g.fr * g.fc
Positions(g) == g.orows * g.ocols
\* the row and column (from 1) in the padded image of tap k of the kernel
\* for output position n (both from 0, row-major): i * s + a * (d + 1)
TapRow(g, n, k) == (n \div g.ocols) * g.s + (k \div g.fc) * (g.d + 1) + 1
TapCol(g, n, k) == (n % g.ocols) * g.s + (k % g.fc) * (g.d + 1) + 1

\* im2col: the padded image unrolled, one column per output position, one
\* row per tap of the kernel
im2col_padded(X_pad, g) ==
    Evaluated(Matrix(Taps(g), Positions(g),
           [k \in 1..Taps(g), n \in 1..Positions(g) |->
               At(X_pad, TapRow(g, n - 1, k - 1), TapCol(g, n - 1, k - 1))]))
im2col(Xm, g) == im2col_padded(Evaluated(pad2D(Xm, g.p)), g)
\* the scatter-add of col2im into a zero volume of the padded size: entry
\* (k, n) of the columns is added at the place of tap k of position n
col2im_scattered(cols, rows, columns, g) ==
    Evaluated(Matrix(rows, columns,
           [r \in 1..rows, c \in 1..columns |->
               SumTo([k \in 1..Taps(g) |->
                         SumTo([n \in 1..Positions(g) |->
                                   IF TapRow(g, n - 1, k - 1) = r /\ TapCol(g, n - 1, k - 1) = c
                                   THEN At(cols, k, n) ELSE 0],
                               Positions(g))],
                     Taps(g))]))
\* col2im: the scatter-add, then the padding frame cut off
col2im(cols, shape, g) ==
    Slice(col2im_scattered(cols, shape[1] + 2 * g.p, shape[2] + 2 * g.p, g),
          g.p, shape[1] + g.p, g.p, shape[2] + g.p)
\* conv2D: the cross-correlation as one matrix product over the unrolled image
conv2D(Xm, W, g) ==
    Reshape(dot(Reshape(W, 1, Taps(g)), im2col(Xm, g)), g.orows, g.ocols)

Conv2D_init_params(st, w) ==
    [st EXCEPT
       !.parameters = [W |-> Arr(st.attrs.kernel_shape,
                                 [n \in 1..(st.attrs.kernel_shape[1] * st.attrs.kernel_shape[2])
                                     |-> w[n]]),
                       b |-> zeros(1, 1)],
       !.gradients = [W |-> zeros(st.attrs.kernel_shape[1], st.attrs.kernel_shape[2]),
                      b |-> zeros(1, 1)],
       !.derived_variables = [Z |-> None, out_rows |-> None, out_cols |-> None],
       !.is_initialized = TRUE]

Conv2D_forward_convolved(s0, Xm, Z) ==
    Return([s0 EXCEPT
              !.X = Xm,
              !.derived_variables = [@ EXCEPT !["out_rows"] = PyInt(Rows(Z)),
                                              !["out_cols"] = PyInt(Cols(Z)),
                                              !["Z"] = Z]],
           act_fn(Z))

Conv2D_forward_initialized(s0, Xm, g) ==
    Conv2D_forward_convolved(s0, Xm,
        add(conv2D(Xm, s0.parameters["W"], g), s0.parameters["b"]))

Conv2D_forward(st, Xm, w) ==
    Conv2D_forward_initialized(
        IF ~st.is_initialized
        THEN Conv2D_init_params([st EXCEPT !.attrs.in_ch = PyInt(1)], w) ELSE st,
        Xm,
        Geometry(st,
            OutSize(Rows(Xm), st.attrs.pad,
                    st.attrs.kernel_shape[1] * (st.attrs.dilation + 1) - st.attrs.dilation,
                    st.attrs.stride),
            OutSize(Cols(Xm), st.attrs.pad,
                    st.attrs.kernel_shape[2] * (st.attrs.dilation + 1) - st.attrs.dilation,
                    st.attrs.stride)))

\* the gradients of the vectorised backward from the columnised dLdZ, X and W
Conv2D_backward_columns(st, g, dLdZ_col, X_col, W_col) ==
    Return([st EXCEPT
              !.gradients =
                  SetItem(SetItem(@, "W", Reshape(dot(dLdZ_col, T(X_col)), g.fr, g.fc)),
                          "b", Scalar(SumTo(dLdZ_col.val, Positions(g))))],
           col2im(Evaluated(dot(W_col, dLdZ_col)), st.X.shape, g))

Conv2D_backward_dLdZ(st, g, dLdZ) ==
    Conv2D_backward_columns(st, g, Evaluated(Reshape(dLdZ, 1, Positions(g))),
                            im2col(st.X, g),
                            Reshape(st.parameters["W"], Taps(g), 1))

\* Conv2D.backward
Conv2D_backward(st, dLdY) ==
    IF ~HasKey(st.derived_variables, "Z") THEN Raise(st, "KeyError")
    ELSE IF ~IsArr(st.derived_variables["Z"]) THEN Raise(st, "TypeError")
    ELSE Conv2D_backward_dLdZ(st, Geometry(st, Rows(dLdY), Cols(dLdY)),
                              mul(dLdY, act_grad(st.derived_variables["Z"])))

\* wc * kernel at the entry (r, c) of the window of position n, 0 elsewhere
WindowWeight(W, g, n, r, c) ==
    IF \E k \in 0..(Taps(g) - 1) : TapRow(g, n, k) = r /\ TapCol(g, n, k) = c
    THEN W.val[(CHOOSE k \in 0..(Taps(g) - 1) : TapRow(g, n, k) = r /\ TapCol(g, n, k) = c) + 1]
    ELSE 0

\* one pass of the innermost loop body of _backward_naive, at the output
\* position acc.n (row-major, from 0)
Conv2D_backward_naive_body(X_pad, W, dZ, g, acc) ==
    [n  |-> acc.n + 1,
     dX |-> Evaluated(Matrix(Rows(acc.dX), Cols(acc.dX),
                [r \in 1..Rows(acc.dX), c \in 1..Cols(acc.dX) |->
                    At(acc.dX, r, c) + WindowWeight(W, g, acc.n, r, c) * dZ.val[acc.n + 1]])),
     dW |-> Evaluated(Matrix(g.fr, g.fc,
                [a \in 1..g.fr, b \in 1..g.fc |->
                    At(acc.dW, a, b)
                      + At(X_pad, TapRow(g, acc.n, (a - 1) * g.fc + (b - 1)),
                                  TapCol(g, acc.n, (a - 1) * g.fc + (b - 1)))
                          * dZ.val[acc.n + 1]])),
     dB |-> acc.dB + dZ.val[acc.n + 1]]

\* the loops of _backward_naive over the output positions, from acc.n on
RECURSIVE Conv2D_backward_naive_loop(_, _, _, _, _)
Conv2D_backward_naive_loop(X_pad, W, dZ, g, acc) ==
    IF acc.n >= Positions(g) THEN acc
    ELSE Conv2D_backward_naive_loop(X_pad, W, dZ, g,
                                    Conv2D_backward_naive_body(X_pad, W, dZ, g, acc))

\* _backward_naive returning the padded dX
Conv2D_backward_naive_uncropped(st, g, acc) ==
    Return([st EXCEPT
              !.gradients = SetItem(SetItem(@, "W", acc.dW), "b", Scalar(acc.dB))],
           acc.dX)

\* the end of _backward_naive: the gradients stored, the padding cut off dX
Conv2D_backward_naive_cropped(st, g, acc) ==
    Return([st EXCEPT
              !.gradients = SetItem(SetItem(@, "W", acc.dW), "b", Scalar(acc.dB))],
           Slice(acc.dX, g.p, Rows(acc.dX) - g.p, g.p, Cols(acc.dX) - g.p))

Conv2D_backward_naive_padded(st, g, X_pad, dZ) ==
    Conv2D_backward_naive_cropped(st, g,
        Conv2D_backward_naive_loop(X_pad, st.parameters["W"], Evaluated(dZ), g,
                                   [n |-> 0, dX |-> zeros_like(X_pad),
                                    dW |-> zeros_like(st.parameters["W"]), dB |-> 0]))

\* Conv2D._backward_naive
Conv2D_backward_naive(st, dLdY) ==
    IF ~HasKey(st.derived_variables, "Z") THEN Raise(st, "KeyError")
    ELSE IF ~IsArr(st.derived_variables["Z"]) THEN Raise(st, "TypeError")
    ELSE Conv2D_backward_naive_padded(st, Geometry(st, Rows(dLdY), Cols(dLdY)),
                                      Evaluated(pad2D(st.X, st.attrs.pad)),
                                      mul(dLdY, act_grad(st.derived_variables["Z"])))

InitConv ==
    /\ kind = "Conv2D"
    /\ trainable = TRUE
    /\ is_initialized = FALSE
    /\ X = None
    /\ gradients = EmptyDict
    /\ parameters = [W |-> None, b |-> None]
    /\ derived_variables = EmptyDict
    /\ attrs \in {[in_ch |-> None, out_ch |-> 1, kernel_shape |-> k, stride |-> s,
                    pad |-> p, dilation |-> d,
                    act_fn |-> ActivationInitializer(Str("ReLU")),
                    optimizer |-> OptimizerInitializer(None)] :
                     k \in ConvKernels, s \in ConvStrides, p \in ConvPads,
                     d \in ConvDilations}
    /\ last = [op |-> "__init__", arg |-> None, ok |-> TRUE, exc |-> "", ret |-> None,
               read |-> EmptyDict, dirty |-> FALSE]
    /\ calls = NewWindow("new")

\* the upstream gradients given to a backward call: of the shape of the last
\* output when there is one
ConvUpstreams ==
    IF HasKey(derived_variables, "out_rows") /\ ~IsNone(derived_variables["out_rows"])
    THEN {ConvUpstream(derived_variables["out_rows"].v, derived_variables["out_cols"].v)}
    ELSE {Scalar(1)}

ConvForward ==
    /\ kind = "Conv2D"
    /\ \E x \in ConvImages :
       \E w \in IF is_initialized THEN {CHOOSE v \in KernelWeights : TRUE}
                ELSE KernelWeights :
          CommitForward(x, Conv2D_forward(Self, x, w))

ConvBackward ==
    /\ kind = "Conv2D"
    /\ \E dLdY \in ConvUpstreams :
          Commit("backward", dLdY, Conv2D_backward(Self, dLdY), calls)

ConvBackwardNaive ==
    /\ kind = "Conv2D"
    /\ \E dLdY \in ConvUpstreams :
          Commit("_backward_naive", dLdY, Conv2D_backward_naive(Self, dLdY), calls)

NextConv ==
    \/ ConvForward
    \/ ConvBackward
    \/ ConvBackwardNaive
    \/ FlushGradients

SpecConv == InitConv /\ [][NextConv]_vars

\* C21: on the same cached forward state and for the same upstream gradient,
\* Conv2D.backward and Conv2D._backward_naive return the same dX and store
\* the same gradients of W and b, for every kernel shape, padding, stride
\* and dilation.
C21_VectorisedAgreesWithNaive ==
    [][(kind = "Conv2D" /\ last'.op \in {"backward", "_backward_naive"})
          => /\ Conv2D_backward(Self, last'.arg) = Conv2D_backward_naive(Self, last'.arg)
             /\ last'.op = "backward"
                   => /\ last'.ret = Conv2D_backward_naive(Self, last'.arg).ret
                      /\ gradients' = Conv2D_backward_naive(Self, last'.arg).st.gradients]_vars

\* the vectorised backward has run on a padded, strided and dilated
\* convolution with a 2 x 2 kernel and has returned a non-zero dX
C21_StridedDilatedBackward ==
    /\ kind = "Conv2D"
    /\ last.op = "backward"
    /\ last.ok
    /\ attrs.kernel_shape = <<2, 2>>
    /\ attrs.stride = 2
    /\ attrs.pad = 1
    /\ attrs.dilation = 1
    /\ ~IsZero(last.ret)
    /\ ~IsZero(gradients["W"])

====
